---- MODULE Spec2Model ----
(***************************************************************************)
(* NeuralVault: an append-only record log with an in-memory position       *)
(* index (storage/file_manager.rs), the query evaluator                    *)
(* (query/processor.rs) and the facade over both (database.rs).            *)
(*                                                                         *)
(* The log is modelled record by record with its exact byte layout         *)
(*   [length(4)][checksum(8)][payload(length)][tombstone(1)]               *)
(* so that every offset the code computes is the offset the file has.      *)
(* Payload bytes are kept symbolically (the encoded field sequence plus    *)
(* the set of payload positions that a stray write has overwritten).       *)
(***************************************************************************)
EXTENDS Integers, Sequences, FiniteSets, TLC

\* ---------------------------------------------------------------- bounds
MaxDocs == 3        \* identifiers the facade generates
MaxRecords == 4     \* physical records in the log
MaxRestarts == 1    \* reopenings of the database over the same file
MaxThreads == 2     \* threads that call into one engine
MaxAppends == 2     \* records the concurrent callers append
MaxPayload == 2     \* bytes of the payload hashed byte by byte
MaxConditions == 3  \* conditions of a query
MaxGiven == 3       \* documents handed to filter in every order
MaxPage == 5        \* documents of the list that is paginated
MaxFaults == 1      \* payload bytes changed behind the engine's back
MaxApiDocs == 2     \* identifiers generated through the api
MaxApiRecords == 3  \* physical records written through the api

\* ------------------------------------------------------ layout constants
HeaderLen == 4      \* data_len.to_le_bytes(), u32
ChecksumLen == 8    \* checksum.to_le_bytes(), u64
TombstoneLen == 1   \* &[0u8]
LenPrefix == 8      \* bincode: u64 length before every string and map
TimestampLen == 30  \* DateTime<Utc> as RFC 3339 text with nanoseconds
NumberLen == 8      \* f64
BoolLen == 1        \* bool
HashLen == 8        \* u64: bytes of the checksum
ByteRange == 256    \* values of a u8
PrimeLow == 435     \* 0x100000001b3 = 2^40 + 0x1b3: the part below 2^40
PrimeShift == 5     \* 0x100000001b3 = 2^40 + 0x1b3: 2^40 is a shift by 5 bytes

VARIABLES
    log,        \* the data file: sequence of physical records
    index,      \* FileManager.index: id -> StoragePosition
    opened,     \* an engine exists (NeuralVault::new succeeded)
    nextId,     \* next identifier create() generates
    clock,      \* Utc::now()
    killed,     \* ids whose kill returned Ok in this session, not written since
    restarts,   \* times the database has been reopened over the log
    \* the engine under concurrent callers
    pc,         \* thread -> the statement of FileManager it stands before
    call,       \* thread -> the call it runs: operation, identifier, position
    fileGuard,  \* the thread that holds data_file.write(), 0 for none
    indexGuard, \* threads that hold index.read(); the one that holds index.write()
    dataFile,   \* the data file as the sequence of parts written
    cursor,     \* the position of the one file handle
    positions,  \* the index: identifier -> offset of its record
    \* one stored record, byte by byte
    stored,     \* the record append wrote: length, checksum, payload, tombstone
    flipped,    \* payload bytes changed behind the engine's back since
    \* the query evaluator
    given,      \* the documents handed to filter
    asked,      \* the query handed to filter
    returned,   \* what filter returned
    \* the api over one process and one data file
    outcome,    \* the last api call: function, identifier, result
    torn        \* bytes of an incomplete record at the end of the data file

storeVars == <<log, index, opened, nextId, clock, killed, restarts>>
lockVars == <<pc, call, fileGuard, indexGuard, dataFile, cursor, positions>>
byteVars == <<stored, flipped>>
queryVars == <<given, asked, returned>>
apiVars == <<outcome, torn>>
vars == <<storeVars, lockVars, byteVars, queryVars, apiVars>>

\* ------------------------------------------------------------ data model
\* Uuid::new_v4().to_string() of the n-th document created: 36 characters
Uuid(n) == "00000000-0000-4000-8000-00000000000" \o SubSeq("0123456789", n + 1, n + 1)
Ids == {Uuid(n) : n \in 1..MaxDocs}
NoId == ""
Collections == {"users", "logs"}
FieldOrder == <<"age", "id", "name">>
Fields == {FieldOrder[i] : i \in 1..Len(FieldOrder)}

\* NVValue (one record shape for every kind, so values compare safely)
Null == [kind |-> "Null", n |-> 0, s |-> "", items |-> <<>>]
Bool(b) == [kind |-> "Bool", n |-> IF b THEN 1 ELSE 0, s |-> "", items |-> <<>>]
Number(x) == [kind |-> "Number", n |-> x, s |-> "", items |-> <<>>]
String(t) == [kind |-> "String", n |-> 0, s |-> t, items |-> <<>>]
Array(xs) == [kind |-> "Array", n |-> 0, s |-> "", items |-> xs]
Object(es) == [kind |-> "Object", n |-> 0, s |-> "", items |-> es]
Field(key, value) == [key |-> key, value |-> value]

EmptyData == [f \in {} |-> Null]

Range(f) == {f[i] : i \in DOMAIN f}

\* NVDocument::new
NVDocument(id, collection, data, now) ==
    [id |-> id, collection |-> collection, data |-> data,
     created_at |-> now, updated_at |-> now, deleted |-> FALSE]

NoDoc == NVDocument(NoId, "", EmptyData, 0)

\* NVDocument::get: Option<&NVValue>
HasField(doc, field) == field \in DOMAIN doc.data
Get(doc, field) == doc.data[field]

\* NVDocument::set
Set(doc, field, value, now) ==
    [doc EXCEPT !.data = (field :> value) @@ doc.data, !.updated_at = now]

\* the loop `for update in updates { document.set(..) }`; the k-th set reads
\* the clock at now + k
RECURSIVE ApplyUpdates(_, _, _)
ApplyUpdates(doc, updates, now) ==
    IF updates = <<>> THEN doc
    ELSE ApplyUpdates(Set(doc, Head(updates).field, Head(updates).value, now + 1),
                      Tail(updates), now + 1)

\* ----------------------------------------------------------------- codec
\* bincode::serialize(document): the struct's fields in declaration order,
\* the map as a sequence of (key, value) entries.
Entries(data) ==
    LET keys == SelectSeq(FieldOrder, LAMBDA f : f \in DOMAIN data)
    IN  [i \in 1..Len(keys) |-> <<keys[i], data[keys[i]]>>]

Serialize(doc) ==
    <<doc.id, doc.collection, Entries(doc.data),
      doc.created_at, doc.updated_at, doc.deleted>>

ScalarLen(v) ==
    CASE v.kind = "Null" -> 0
      [] v.kind = "Bool" -> BoolLen
      [] v.kind = "Number" -> NumberLen
      [] OTHER -> LenPrefix + Len(v.s)

RECURSIVE ItemsLen(_)
ItemsLen(xs) == IF xs = <<>> THEN 0 ELSE ScalarLen(Head(xs)) + ItemsLen(Tail(xs))

ValueLen(v) == IF v.kind = "Array" THEN LenPrefix + ItemsLen(v.items) ELSE ScalarLen(v)

RECURSIVE EntriesLen(_)
EntriesLen(es) ==
    IF es = <<>> THEN 0
    ELSE LenPrefix + Len(Head(es)[1]) + ValueLen(Head(es)[2]) + EntriesLen(Tail(es))

\* data.len(): number of bytes of the encoding
EncLen(enc) ==
    (LenPrefix + Len(enc[1])) + (LenPrefix + Len(enc[2]))
    + (LenPrefix + EntriesLen(enc[3]))
    + (LenPrefix + TimestampLen) + (LenPrefix + TimestampLen) + BoolLen

\* bincode::deserialize of an undamaged encoding
Decode(enc) ==
    [id |-> enc[1], collection |-> enc[2],
     data |-> [f \in {enc[3][i][1] : i \in 1..Len(enc[3])} |->
                 enc[3][CHOOSE i \in 1..Len(enc[3]) : enc[3][i][1] = f][2]],
     created_at |-> enc[4], updated_at |-> enc[5], deleted |-> enc[6]]

\* The payload bytes of a record: the encoding written by append, and the
\* positions (0-based, inside the payload) where a later one-byte write of
\* 0x01 has changed the byte.
Payload(doc) == [enc |-> Serialize(doc), hits |-> {}]

\* whether byte k of the encoded entries is part of a length prefix (of a key,
\* of a text value; an array is prefixes throughout)
RECURSIVE InEntryPrefix(_, _)
InEntryPrefix(es, k) ==
    IF es = <<>> THEN FALSE
    ELSE LET value == Head(es)[2]
             keyEnd == LenPrefix + Len(Head(es)[1])
             size == keyEnd + ValueLen(value)
         IN  IF k < LenPrefix THEN TRUE
             ELSE IF k < keyEnd THEN FALSE
             ELSE IF k < size
                  THEN \/ value.kind = "Array"
                       \/ value.kind = "String" /\ k - keyEnd < LenPrefix
             ELSE InEntryPrefix(Tail(es), k - size)

\* the part of the encoding that holds payload byte k: `rel` is the position
\* inside the part, `value` the number a length prefix holds
Part(enc, k) ==
    LET idEnd == LenPrefix + Len(enc[1])
        colEnd == idEnd + LenPrefix + Len(enc[2])
        entEnd == colEnd + LenPrefix + EntriesLen(enc[3])
        crEnd == entEnd + LenPrefix + TimestampLen
        upEnd == crEnd + LenPrefix + TimestampLen
        part(name, from, value) == [part |-> name, rel |-> k - from, value |-> value]
    IN  IF k < LenPrefix THEN part("prefix", 0, Len(enc[1]))
        ELSE IF k < idEnd THEN part("id", LenPrefix, 0)
        ELSE IF k < idEnd + LenPrefix THEN part("prefix", idEnd, Len(enc[2]))
        ELSE IF k < colEnd THEN part("collection", idEnd + LenPrefix, 0)
        ELSE IF k < colEnd + LenPrefix THEN part("prefix", colEnd, Len(enc[3]))
        ELSE IF k < entEnd
             THEN IF InEntryPrefix(enc[3], k - colEnd - LenPrefix)
                  THEN part("prefix", 0, 0)
                  ELSE part("entries", colEnd + LenPrefix, 0)
        ELSE IF k < entEnd + LenPrefix THEN part("prefix", entEnd, TimestampLen)
        ELSE IF k < crEnd THEN part("created_at", entEnd + LenPrefix, 0)
        ELSE IF k < crEnd + LenPrefix THEN part("prefix", crEnd, TimestampLen)
        ELSE IF k < upEnd THEN part("updated_at", crEnd + LenPrefix, 0)
        ELSE part("deleted", upEnd, 0)

\* whether writing 0x01 at payload byte k changes the byte: a length prefix
\* is a little-endian u64 below 256, text and f64 bytes are never 0x01, the
\* flag is 0x00 unless the document was written with deleted = true; the
\* keys and texts of a field map are longer than one character
Changes(enc, k) ==
    LET p == Part(enc, k) IN
    CASE p.part = "prefix" -> p.rel > 0 \/ p.value # 1
      [] p.part = "deleted" -> ~enc[6]
      [] OTHER -> TRUE

\* the character that stands for the byte 0x01 inside a text
Byte01 == "#"

\* the text s with 0x01 at the (0-based) positions H, from character i on
RECURSIVE Stamped(_, _, _)
Stamped(s, H, i) ==
    IF H = {} THEN s
    ELSE IF i > Len(s) THEN ""
    ELSE (IF (i - 1) \in H THEN Byte01 ELSE SubSeq(s, i, i)) \o Stamped(s, H, i + 1)

\* bincode::deserialize::<NVDocument>(&data).  0x01 inside the text of the
\* identifier or of the collection is one more character of that text; 0x01
\* as the flag is deleted = true; a changed length prefix sends the decoder
\* off the field boundaries, and 0x01 inside a timestamp is no RFC 3339 text.
\* 0x01 inside a key or a value of the field map gives another key or value
\* of the same length: such a payload reaches scan_all only (read_at rejects
\* its checksum), whose callers read the identifier, the collection and the
\* encoded length, and the field map is kept as written.
Deserialize(data) ==
    LET enc == data.enc
        parts == {Part(enc, k) : k \in data.hits}
        at(name) == {p.rel : p \in {q \in parts : q.part = name}}
    IN  IF \E p \in parts : p.part \in {"prefix", "created_at", "updated_at"}
        THEN [ok |-> FALSE, doc |-> NoDoc]
        ELSE [ok |-> TRUE,
              doc |-> [Decode(enc) EXCEPT
                         !.id = Stamped(@, at("id"), 1),
                         !.collection = Stamped(@, at("collection"), 1),
                         !.deleted = @ \/ at("deleted") # {}]]

\* calculate_checksum(&data): the FNV-1a digest, kept as a symbolic digest of
\* the bytes hashed (distinct byte strings, distinct digests)
calculate_checksum(data) == <<"fnv1a", data.enc, data.hits>>

\* ---------------------------------------------------------- record layout
\* one physical record: [length(4)][checksum(8)][data][tombstone(1)]
Record(doc) ==
    [len |-> EncLen(Serialize(doc)),
     checksum |-> [sum |-> calculate_checksum(Payload(doc)), hits |-> {}],
     data |-> Payload(doc),
     tomb |-> 0]

PayloadLen(r) == EncLen(r.data.enc)
RecSize(r) == HeaderLen + ChecksumLen + PayloadLen(r) + TombstoneLen

\* byte offset of the i-th record (i = Len(l) + 1: the end of the file)
RECURSIVE Offset(_, _)
Offset(l, i) == IF i <= 1 THEN 0 ELSE Offset(l, i - 1) + RecSize(l[i - 1])

FileLen(l) == Offset(l, Len(l) + 1)

IsBoundary(l, o) == \E i \in 1..Len(l) : Offset(l, i) = o
RecordAt(l, o) == CHOOSE i \in 1..Len(l) : Offset(l, i) = o

\* the record and the part of it that holds byte t of the file
Locate(l, t) ==
    IF t >= FileLen(l) THEN [rec |-> 0, region |-> "beyond", k |-> t - FileLen(l)]
    ELSE LET i == CHOOSE j \in 1..Len(l) : Offset(l, j) <= t /\ t < Offset(l, j + 1)
             rel == t - Offset(l, i)
         IN  IF rel < HeaderLen THEN [rec |-> i, region |-> "len", k |-> rel]
             ELSE IF rel < HeaderLen + ChecksumLen
                  THEN [rec |-> i, region |-> "checksum", k |-> rel - HeaderLen]
             ELSE IF rel < HeaderLen + ChecksumLen + PayloadLen(l[i])
                  THEN [rec |-> i, region |-> "data", k |-> rel - HeaderLen - ChecksumLen]
             ELSE [rec |-> i, region |-> "tombstone", k |-> 0]

RECURSIVE Pow256(_)
Pow256(k) == IF k = 0 THEN 1 ELSE 256 * Pow256(k - 1)

\* a little-endian u32 with byte k replaced by b
SetByte(n, k, b) == n - ((n \div Pow256(k)) % 256) * Pow256(k) + b * Pow256(k)

\* --------------------------------------------------------- storage engine
StoragePosition(offset, length) == [file_offset |-> offset, length |-> length]

Err(e) == [status |-> e, doc |-> NoDoc]
Ok(doc) == [status |-> "Ok", doc |-> doc]

\* FileManager::new: HashMap::new()
EmptyIndex == [i \in {} |-> StoragePosition(0, 0)]

\* FileManager::append: the record goes to SeekFrom::End(0), then the index
\* entry of document.id is replaced
AppendLog(l, doc) == Append(l, Record(doc))
\* a variant of append that takes the position after the record is written
\* (stream_position() behind write_all instead of the result of seek)
AppendIndexAfterWrite(l, idx, doc) ==
    (doc.id :> StoragePosition(FileLen(AppendLog(l, doc)), EncLen(Serialize(doc)))) @@ idx

AppendIndex(l, idx, doc) ==
    (doc.id :> StoragePosition(FileLen(l), EncLen(Serialize(doc)))) @@ idx

\* a variant of read_at without the test of the tombstone byte
read_at_any_tombstone(l, position) ==
    LET o == position.file_offset IN
    IF ~IsBoundary(l, o) THEN Err("IoError")
    ELSE LET r == l[RecordAt(l, o)] IN
         IF r.len # PayloadLen(r)
         THEN IF o + HeaderLen + ChecksumLen + r.len + TombstoneLen > FileLen(l)
              THEN Err("IoError")
              ELSE Err("StorageError")
         ELSE IF r.checksum.hits # {} \/ calculate_checksum(r.data) # r.checksum.sum
              THEN Err("StorageError")
         ELSE IF ~Deserialize(r.data).ok THEN Err("SerializationError")
         ELSE Ok(Deserialize(r.data).doc)

\* FileManager::read_at.  The reads come first (io error at end of file), then
\* the checksum, then the tombstone, then the decoding.  An offset that is no
\* record boundary makes the four bytes read as length a number larger than
\* the file, and read_exact fails.
read_at(l, position) ==
    LET o == position.file_offset IN
    IF ~IsBoundary(l, o) THEN Err("IoError")
    ELSE LET r == l[RecordAt(l, o)] IN
         IF r.len # PayloadLen(r)
         THEN IF o + HeaderLen + ChecksumLen + r.len + TombstoneLen > FileLen(l)
              THEN Err("IoError")
              ELSE Err("StorageError")
         ELSE IF r.checksum.hits # {} \/ calculate_checksum(r.data) # r.checksum.sum
              THEN Err("StorageError")
         ELSE IF r.tomb = 1 THEN Err("DocumentNotFound")
         ELSE IF ~Deserialize(r.data).ok THEN Err("SerializationError")
         ELSE Ok(Deserialize(r.data).doc)

\* FileManager::read
read(l, idx, id) ==
    IF id \notin DOMAIN idx THEN Err("DocumentNotFound") ELSE read_at(l, idx[id])

\* FileManager::mark_deleted writes the byte 0x01 at
\* file_offset + 4 + 8 + length of the index entry
TombstoneOffset(position) ==
    position.file_offset + HeaderLen + ChecksumLen + position.length

\* the file after 0x01 is written at byte t; `changed` is whether a checksum
\* byte written over held another value before
WriteOne(l, t, changed) ==
    LET at == Locate(l, t) IN
    CASE at.region = "tombstone" -> [l EXCEPT ![at.rec].tomb = 1]
      [] at.region = "len" -> [l EXCEPT ![at.rec].len = SetByte(@, at.k, 1)]
      [] at.region = "checksum" ->
            IF changed THEN [l EXCEPT ![at.rec].checksum.hits = @ \cup {at.k}] ELSE l
      [] at.region = "data" ->
            IF Changes(l[at.rec].data.enc, at.k)
            THEN [l EXCEPT ![at.rec].data.hits = @ \cup {at.k}] ELSE l
      [] OTHER -> l

\* whether a checksum byte written over held 0x01 before is not known from the
\* digest: both cases, when a tombstone offset of the index lies in a checksum
OverwriteChoices(l, idx) ==
    IF \E id \in DOMAIN idx : Locate(l, TombstoneOffset(idx[id])).region = "checksum"
    THEN BOOLEAN ELSE {TRUE}

mark_deleted(l, idx, id, changed) ==
    IF id \notin DOMAIN idx THEN [status |-> "DocumentNotFound", log |-> l]
    ELSE [status |-> "Ok", log |-> WriteOne(l, TombstoneOffset(idx[id]), changed)]

\* FileManager::scan_all: every record from offset 0, no checksum test; a
\* record is kept when its tombstone is 0 and its payload decodes.  A record
\* whose length field no longer is its payload length sends the reads off the
\* record boundaries and read_exact runs into the end of the file.
RECURSIVE ScanFrom(_, _, _)
ScanFrom(l, i, documents) ==
    IF i > Len(l) THEN [status |-> "Ok", docs |-> documents]
    ELSE IF l[i].len # PayloadLen(l[i]) THEN [status |-> "IoError", docs |-> <<>>]
    ELSE ScanFrom(l, i + 1,
                  IF l[i].tomb = 0 /\ Deserialize(l[i].data).ok
                  THEN Append(documents, Deserialize(l[i].data).doc)
                  ELSE documents)

scan_all(l) == ScanFrom(l, 1, <<>>)

\* the loop of FileManager::rebuild_index: the offset starts at 0 and advances
\* by 4 + 8 + data_len + 1 for every document scan_all returned
RECURSIVE InsertAll(_, _, _)
InsertAll(documents, offset, idx) ==
    IF documents = <<>> THEN idx
    ELSE LET doc == Head(documents)
             data_len == EncLen(Serialize(doc))
         IN  InsertAll(Tail(documents),
                       offset + HeaderLen + ChecksumLen + data_len + TombstoneLen,
                       (doc.id :> StoragePosition(offset, data_len)) @@ idx)

\* a variant of rebuild_index whose walk is not rewound: the offsets go on
\* behind the last record the index held before
rebuild_index_not_rewound(l, idx) ==
    LET ends == {idx[id].file_offset + HeaderLen + ChecksumLen + idx[id].length
                   + TombstoneLen : id \in DOMAIN idx}
        from == IF ends = {} THEN 0 ELSE CHOOSE e \in ends : \A f \in ends : f <= e
    IN  IF scan_all(l).status # "Ok" THEN [status |-> scan_all(l).status, index |-> idx]
        ELSE [status |-> "Ok", index |-> InsertAll(scan_all(l).docs, from, EmptyIndex)]

\* FileManager::rebuild_index; a failed scan returns before index.clear()
rebuild_index(l, idx) ==
    IF scan_all(l).status # "Ok" THEN [status |-> scan_all(l).status, index |-> idx]
    ELSE [status |-> "Ok", index |-> InsertAll(scan_all(l).docs, 0, EmptyIndex)]

\* the orders in which index.values() of a HashMap can come
Orders(S) ==
    {p \in [1..Cardinality(S) -> S] : \A i, j \in 1..Cardinality(S) : p[i] = p[j] => i = j}

\* the index entries scan_collection keeps a document of; the other entries
\* add nothing to the result wherever the iteration meets them
Kept(l, idx, collection) ==
    {id \in DOMAIN idx :
        /\ read_at(l, idx[id]).status = "Ok"
        /\ read_at(l, idx[id]).doc.collection = collection
        /\ ~read_at(l, idx[id]).doc.deleted}

\* FileManager::scan_collection over the index entries in the order `order`
RECURSIVE ScanEntries(_, _, _, _)
ScanEntries(l, idx, order, collection) ==
    IF order = <<>> THEN <<>>
    ELSE LET r == read_at(l, idx[Head(order)])
             rest == ScanEntries(l, idx, Tail(order), collection)
         IN  IF r.status = "Ok" /\ r.doc.collection = collection /\ ~r.doc.deleted
             THEN <<r.doc>> \o rest
             ELSE rest

\* a variant of scan_collection without the test of the collection name
scan_collection_any(l, idx, order, collection) ==
    LET reads == [i \in 1..Len(order) |-> read_at(l, idx[order[i]])]
        kept == SelectSeq(reads, LAMBDA r : r.status = "Ok" /\ ~r.doc.deleted)
    IN  [i \in 1..Len(kept) |-> kept[i].doc]

\* a variant of scan_collection that leaves the loop at the first entry that
\* cannot be read (`Err(_) => break`)
RECURSIVE scan_collection_until_error(_, _, _, _)
scan_collection_until_error(l, idx, order, collection) ==
    IF order = <<>> THEN <<>>
    ELSE LET r == read_at(l, idx[Head(order)]) IN
         IF r.status # "Ok" THEN <<>>
         ELSE IF r.doc.collection = collection /\ ~r.doc.deleted
              THEN <<r.doc>> \o scan_collection_until_error(l, idx, Tail(order), collection)
              ELSE scan_collection_until_error(l, idx, Tail(order), collection)

scan_collection(l, idx, order, collection) == ScanEntries(l, idx, order, collection)

\* a variant of statistics that counts the records of the file
statistics_of_records(l, idx) ==
    [document_count |-> Len(l), file_size_bytes |-> FileLen(l)]

\* FileManager::statistics
statistics(l, idx) ==
    [document_count |-> Cardinality(DOMAIN idx), file_size_bytes |-> FileLen(l)]

\* -------------------------------------------------------- query evaluator
\* Option<String> and Option<usize>
NoField == [some |-> FALSE, v |-> ""]
SomeField(f) == [some |-> TRUE, v |-> f]
NoCount == [some |-> FALSE, v |-> 0]
SomeCount(n) == [some |-> TRUE, v |-> n]

\* NVQuery::new
NVQuery(collection) ==
    [collection |-> collection, conditions |-> <<>>, logical_operators |-> <<>>,
     order_by |-> NoField, order_desc |-> FALSE, limit |-> NoCount, skip |-> NoCount]

QueryCondition(field, operator, value) ==
    [field |-> field, operator |-> operator, value |-> value]

\* NVQuery::add_condition with logical_op = None
add_condition(query, field, operator, value) ==
    [query EXCEPT !.conditions = Append(@, QueryCondition(field, operator, value))]

\* NVQuery::add_condition with logical_op = Some(op)
add_condition_op(query, field, operator, value, op) ==
    [query EXCEPT !.logical_operators = Append(@, op),
                  !.conditions = Append(@, QueryCondition(field, operator, value))]

\* byte order of the characters strings are made of
Alphabet == "#-0123456789ABCDEFGHIJKLMNOPQRSTUVWXYZabcdefghijklmnopqrstuvwxyz"
CharRank(c) == CHOOSE i \in 1..Len(Alphabet) : SubSeq(Alphabet, i, i) = c

\* Ordering as -1 (Less), 0 (Equal), 1 (Greater)
IntCmp(a, b) == IF a < b THEN -1 ELSE IF a > b THEN 1 ELSE 0

\* str::cmp
RECURSIVE StrCmp(_, _)
StrCmp(a, b) ==
    IF a = "" \/ b = "" THEN IntCmp(Len(a), Len(b))
    ELSE IF SubSeq(a, 1, 1) # SubSeq(b, 1, 1)
         THEN IntCmp(CharRank(SubSeq(a, 1, 1)), CharRank(SubSeq(b, 1, 1)))
         ELSE StrCmp(SubSeq(a, 2, Len(a)), SubSeq(b, 2, Len(b)))

\* QueryProcessor::values_equal; numbers are whole, so |a - b| < EPSILON is a = b
values_equal(left, right) ==
    CASE left.kind = "Null" /\ right.kind = "Null" -> TRUE
      [] left.kind = "Bool" /\ right.kind = "Bool" -> left.n = right.n
      [] left.kind = "Number" /\ right.kind = "Number" -> left.n = right.n
      [] left.kind = "String" /\ right.kind = "String" -> left.s = right.s
      [] OTHER -> FALSE

\* QueryProcessor::compare_numeric with the comparator named by the operator
compare_numeric(left, right, operator) ==
    IF left.kind = "Number" /\ right.kind = "Number"
    THEN CASE operator = "GreaterThan" -> left.n > right.n
           [] operator = "GreaterThanOrEqual" -> left.n >= right.n
           [] operator = "LessThan" -> left.n < right.n
           [] OTHER -> left.n <= right.n
    ELSE FALSE

\* QueryProcessor::string_contains / string_starts_with / string_ends_with
string_contains(left, right) ==
    /\ left.kind = "String" /\ right.kind = "String"
    /\ \E i \in 1..(Len(left.s) + 1) :
          /\ i + Len(right.s) - 1 <= Len(left.s)
          /\ SubSeq(left.s, i, i + Len(right.s) - 1) = right.s

string_starts_with(left, right) ==
    /\ left.kind = "String" /\ right.kind = "String"
    /\ Len(right.s) <= Len(left.s)
    /\ SubSeq(left.s, 1, Len(right.s)) = right.s

string_ends_with(left, right) ==
    /\ left.kind = "String" /\ right.kind = "String"
    /\ Len(right.s) <= Len(left.s)
    /\ SubSeq(left.s, Len(left.s) - Len(right.s) + 1, Len(left.s)) = right.s

\* QueryProcessor::value_in_array
value_in_array(value, array) ==
    /\ array.kind = "Array"
    /\ \E i \in 1..Len(array.items) : values_equal(value, array.items[i])

\* QueryProcessor::compare_values
compare_values(left, right, operator) ==
    CASE operator = "Equals" -> values_equal(left, right)
      [] operator = "NotEquals" -> ~values_equal(left, right)
      [] operator \in {"GreaterThan", "GreaterThanOrEqual", "LessThan", "LessThanOrEqual"} ->
            compare_numeric(left, right, operator)
      [] operator = "Contains" -> string_contains(left, right)
      [] operator = "StartsWith" -> string_starts_with(left, right)
      [] operator = "EndsWith" -> string_ends_with(left, right)
      [] operator = "In" -> value_in_array(left, right)
      [] OTHER -> ~value_in_array(left, right)

\* a variant of evaluate_condition that reads an absent field as Null
evaluate_condition_absent_as_null(document, condition) ==
    compare_values(IF HasField(document, condition.field)
                   THEN Get(document, condition.field) ELSE Null,
                   condition.value, condition.operator)

\* QueryProcessor::evaluate_condition
evaluate_condition(document, condition) ==
    IF ~HasField(document, condition.field) THEN FALSE
    ELSE compare_values(Get(document, condition.field), condition.value, condition.operator)

\* the loop of matches_query from connector i on, `result` the running value
RECURSIVE FoldConditions(_, _, _, _)
FoldConditions(document, query, i, result) ==
    IF i > Len(query.logical_operators) \/ i + 1 > Len(query.conditions) THEN result
    ELSE LET next_result == evaluate_condition(document, query.conditions[i + 1])
         IN  FoldConditions(document, query, i + 1,
                            IF query.logical_operators[i] = "And"
                            THEN result /\ next_result
                            ELSE result \/ next_result)

\* a variant of matches_query in which And binds tighter than Or: `group` is
\* the value of the conjunction under way
RECURSIVE OrOfAnds(_, _, _, _)
OrOfAnds(document, query, i, group) ==
    IF i > Len(query.logical_operators) \/ i + 1 > Len(query.conditions) THEN group
    ELSE LET next_result == evaluate_condition(document, query.conditions[i + 1])
         IN  IF query.logical_operators[i] = "And"
             THEN OrOfAnds(document, query, i + 1, group /\ next_result)
             ELSE group \/ OrOfAnds(document, query, i + 1, next_result)

matches_query_and_first(document, query) ==
    IF query.conditions = <<>> THEN TRUE
    ELSE OrOfAnds(document, query, 1, evaluate_condition(document, query.conditions[1]))

\* QueryProcessor::matches_query
\* a variant of matches_query that joins with And every condition left
\* behind the last connector
RECURSIVE AndFrom(_, _, _)
AndFrom(document, query, i) ==
    IF i > Len(query.conditions) THEN TRUE
    ELSE evaluate_condition(document, query.conditions[i]) /\ AndFrom(document, query, i + 1)

matches_query_and_rest(document, query) ==
    IF query.conditions = <<>> THEN TRUE
    ELSE /\ FoldConditions(document, query, 1,
                           evaluate_condition(document, query.conditions[1]))
         /\ AndFrom(document, query, Len(query.logical_operators) + 2)

matches_query(document, query) ==
    IF query.conditions = <<>> THEN TRUE
    ELSE FoldConditions(document, query, 1,
                        evaluate_condition(document, query.conditions[1]))

\* a variant of the comparator whose direction flag leaves the documents
\* without the field behind the others
Ordering_missing_last(a, b, field, descending) ==
    LET flip(o) == IF descending THEN 0 - o ELSE o IN
    CASE HasField(a, field) /\ HasField(b, field) ->
           (CASE Get(a, field).kind = "Number" /\ Get(b, field).kind = "Number" ->
                   flip(IntCmp(Get(a, field).n, Get(b, field).n))
              [] Get(a, field).kind = "String" /\ Get(b, field).kind = "String" ->
                   flip(StrCmp(Get(a, field).s, Get(b, field).s))
              [] Get(a, field).kind = "Bool" /\ Get(b, field).kind = "Bool" ->
                   flip(IntCmp(Get(a, field).n, Get(b, field).n))
              [] OTHER -> 0)
      [] HasField(a, field) /\ ~HasField(b, field) -> -1
      [] ~HasField(a, field) /\ HasField(b, field) -> 1
      [] OTHER -> 0

\* the comparator of sort_documents
Ordering(a, b, field, descending) ==
    LET ordering ==
          CASE HasField(a, field) /\ HasField(b, field) ->
                 (CASE Get(a, field).kind = "Number" /\ Get(b, field).kind = "Number" ->
                         IntCmp(Get(a, field).n, Get(b, field).n)
                    [] Get(a, field).kind = "String" /\ Get(b, field).kind = "String" ->
                         StrCmp(Get(a, field).s, Get(b, field).s)
                    [] Get(a, field).kind = "Bool" /\ Get(b, field).kind = "Bool" ->
                         IntCmp(Get(a, field).n, Get(b, field).n)
                    [] OTHER -> 0)
            [] HasField(a, field) /\ ~HasField(b, field) -> -1
            [] ~HasField(a, field) /\ HasField(b, field) -> 1
            [] OTHER -> 0
    IN  IF descending THEN 0 - ordering ELSE ordering

\* slice::sort_by, a stable sort: each element in turn is moved left past the
\* elements that compare Greater than it
RECURSIVE InsertSorted(_, _, _, _)
InsertSorted(sorted, x, field, descending) ==
    IF sorted = <<>> THEN <<x>>
    ELSE IF Ordering(sorted[Len(sorted)], x, field, descending) > 0
         THEN Append(InsertSorted(SubSeq(sorted, 1, Len(sorted) - 1), x, field, descending),
                     sorted[Len(sorted)])
         ELSE Append(sorted, x)

RECURSIVE SortFrom(_, _, _, _)
SortFrom(sorted, rest, field, descending) ==
    IF rest = <<>> THEN sorted
    ELSE SortFrom(InsertSorted(sorted, Head(rest), field, descending), Tail(rest),
                  field, descending)

\* QueryProcessor::sort_documents
sort_documents(documents, field, descending) == SortFrom(<<>>, documents, field, descending)

\* a variant of filter that truncates to the limit before it skips
filter_limit_before_skip(documents, query) ==
    LET matched == SelectSeq(documents, LAMBDA doc : matches_query(doc, query))
        ordered == IF query.order_by.some
                   THEN sort_documents(matched, query.order_by.v, query.order_desc)
                   ELSE matched
        limited == IF query.limit.some /\ query.limit.v < Len(ordered)
                   THEN SubSeq(ordered, 1, query.limit.v)
                   ELSE ordered
    IN  IF documents = <<>> THEN <<>>
        ELSE IF query.skip.some
             THEN SubSeq(limited, query.skip.v + 1, Len(limited))
             ELSE limited

\* QueryProcessor::filter
filter(documents, query) ==
    LET matched == SelectSeq(documents, LAMBDA doc : matches_query(doc, query))
        ordered == IF query.order_by.some
                   THEN sort_documents(matched, query.order_by.v, query.order_desc)
                   ELSE matched
        skipped == IF query.skip.some
                   THEN SubSeq(ordered, query.skip.v + 1, Len(ordered))
                   ELSE ordered
    IN  IF documents = <<>> THEN <<>>
        ELSE IF query.limit.some /\ query.limit.v < Len(skipped)
             THEN SubSeq(skipped, 1, query.limit.v)
             ELSE skipped

\* ----------------------------------------------------------------- inputs
UpdateOperation(field, value) == [field |-> field, value |-> value]

CreateInputs ==
    {[collection |-> "users", data |-> ("age" :> Number(23)) @@ ("name" :> String("al"))],
     [collection |-> "logs", data |-> EmptyData]}

UpdateLists ==
    {<<UpdateOperation("id", String("x7")), UpdateOperation("age", Number(21))>>}

Queries ==
    {NVQuery("users"), NVQuery("logs"),
     add_condition(NVQuery("users"), "age", "GreaterThan", Number(22))}

UpdateQueries == {add_condition(NVQuery("users"), "age", "GreaterThan", Number(22))}

KillQueries == {NVQuery("logs")}

\* ------------------------------------------------------------------ facade
\* NeuralVault::find_by_id
find_by_id(l, idx, id) == read(l, idx, id)

\* NeuralVault::find
find(l, idx, order, query) ==
    filter(scan_collection(l, idx, order, query.collection), query)

\* NeuralVault::count
count(l, idx, order, collection) == Len(scan_collection(l, idx, order, collection))

\* the loop of NeuralVault::update: every document found is changed and
\* appended, in the order found
RECURSIVE UpdateEach(_, _, _, _, _)
UpdateEach(l, idx, documents, updates, now) ==
    IF documents = <<>> THEN [log |-> l, index |-> idx]
    ELSE LET doc == ApplyUpdates(Head(documents), updates, now)
         IN  UpdateEach(AppendLog(l, doc), AppendIndex(l, idx, doc),
                        Tail(documents), updates, now + Len(updates))

\* the loop of NeuralVault::kill: mark_deleted(&doc.id)? for every document
RECURSIVE KillEach(_, _, _, _)
KillEach(l, idx, documents, changed) ==
    IF documents = <<>> THEN [status |-> "Ok", log |-> l]
    ELSE LET m == mark_deleted(l, idx, Head(documents).id, changed)
         IN  IF m.status # "Ok" THEN m
             ELSE KillEach(m.log, idx, Tail(documents), changed)

\* sort() and dedup() of the collection names
RECURSIVE SortedNames(_)
SortedNames(S) ==
    IF S = {} THEN <<>>
    ELSE LET least == CHOOSE c \in S : \A d \in S : StrCmp(c, d) <= 0
         IN  <<least>> \o SortedNames(S \ {least})

\* NeuralVault::collections
collections(l) ==
    IF scan_all(l).status # "Ok" THEN [status |-> scan_all(l).status, names |-> <<>>]
    ELSE [status |-> "Ok",
          names |-> SortedNames({scan_all(l).docs[i].collection :
                                   i \in 1..Len(scan_all(l).docs)})]

\* NeuralVault::stats
stats(l, idx) ==
    IF collections(l).status # "Ok" THEN [status |-> collections(l).status, collections |-> <<>>,
                                          total_documents |-> 0, total_collections |-> 0,
                                          storage_size_bytes |-> 0]
    ELSE [status |-> "Ok", collections |-> collections(l).names,
          total_documents |-> statistics(l, idx).document_count,
          total_collections |-> Len(collections(l).names),
          storage_size_bytes |-> statistics(l, idx).file_size_bytes]

DocIds(documents) == {documents[i].id : i \in 1..Len(documents)}

\* ----------------------------------------------------------------- actions
\* FileManager::new on an empty directory, no call under way
Threads == 1..MaxThreads
NoCall == [op |-> "none", id |-> NoId, offset |-> 0]
NoGuards == [readers |-> {}, writer |-> 0]

LockInit ==
    /\ pc = [t \in Threads |-> "idle"]
    /\ call = [t \in Threads |-> NoCall]
    /\ fileGuard = 0
    /\ indexGuard = NoGuards
    /\ dataFile = <<>>
    /\ cursor = 0
    /\ positions = [i \in {} |-> 0]

\* no record stored byte by byte
ByteIdle ==
    /\ stored = [len |-> 0, checksum |-> <<>>, data |-> <<>>, tombstone |-> 0]
    /\ flipped = {}

\* no call of filter
NotReturned == [done |-> FALSE, docs |-> <<>>]

QueryIdle ==
    /\ given = <<>>
    /\ asked = NVQuery("")
    /\ returned = NotReturned

\* no api call made, the data file ends with a whole record
ApiResult(op, id, status) == [op |-> op, id |-> id, status |-> status]
NoOutcome == ApiResult("none", NoId, "Ok")

ApiIdle ==
    /\ outcome = NoOutcome
    /\ torn = 0

\* NeuralVault::new on an empty directory
StoreInit ==
    /\ log = <<>>
    /\ index = EmptyIndex
    /\ opened = TRUE
    /\ nextId = 1
    /\ clock = 0
    /\ killed = {}
    /\ restarts = 0

Init == StoreInit /\ LockInit /\ ByteIdle /\ QueryIdle /\ ApiIdle

\* NeuralVault::create
Create(collection, data) ==
    /\ opened
    /\ nextId <= MaxDocs
    /\ Len(log) < MaxRecords
    /\ LET document == NVDocument(Uuid(nextId), collection, data, clock + 1) IN
        /\ log' = AppendLog(log, document)
        /\ index' = AppendIndex(log, index, document)
    /\ nextId' = nextId + 1
    /\ clock' = clock + 1
    /\ UNCHANGED <<opened, killed, restarts, lockVars, byteVars, queryVars, apiVars>>

\* NeuralVault::update_by_id; the call that fails at read(id)? changes nothing
UpdateById(id, updates) ==
    /\ opened
    /\ LET r == read(log, index, id)
           document == ApplyUpdates(r.doc, updates, clock)
       IN  IF r.status # "Ok"
           THEN UNCHANGED <<log, index, clock, killed>>
           ELSE /\ Len(log) < MaxRecords
                /\ log' = AppendLog(log, document)
                /\ index' = AppendIndex(log, index, document)
                /\ clock' = clock + Len(updates)
                /\ killed' = killed \ {document.id}
    /\ UNCHANGED <<opened, nextId, restarts, lockVars, byteVars, queryVars, apiVars>>

\* NeuralVault::update
Update(query, updates, order) ==
    /\ opened
    /\ LET documents == find(log, index, order, query)
           done == UpdateEach(log, index, documents, updates, clock)
       IN  /\ Len(log) + Len(documents) <= MaxRecords
           /\ log' = done.log
           /\ index' = done.index
           /\ clock' = clock + Len(documents) * Len(updates)
           /\ killed' = killed \ DocIds(documents)
    /\ UNCHANGED <<opened, nextId, restarts, lockVars, byteVars, queryVars, apiVars>>

\* NeuralVault::kill_by_id; the call that fails in mark_deleted changes nothing
KillById(id, changed) ==
    /\ opened
    /\ LET m == mark_deleted(log, index, id, changed) IN
        IF m.status # "Ok"
        THEN UNCHANGED <<log, killed>>
        ELSE /\ log' = m.log
             /\ killed' = killed \cup {id}
    /\ UNCHANGED <<index, opened, nextId, clock, restarts, lockVars, byteVars, queryVars, apiVars>>

\* NeuralVault::kill
Kill(query, order, changed) ==
    /\ opened
    /\ LET documents == find(log, index, order, query)
           m == KillEach(log, index, documents, changed)
       IN  /\ log' = m.log
           /\ killed' = IF m.status = "Ok" THEN killed \cup DocIds(documents) ELSE killed
    /\ UNCHANGED <<index, opened, nextId, clock, restarts, lockVars, byteVars, queryVars, apiVars>>

\* NeuralVault::new over the existing data file: FileManager::new, then
\* rebuild_index; a failed rebuild leaves no engine
Restart ==
    /\ restarts < MaxRestarts
    /\ LET rebuilt == rebuild_index(log, EmptyIndex) IN
        /\ index' = rebuilt.index
        /\ opened' = (rebuilt.status = "Ok")
    /\ killed' = {}
    /\ restarts' = restarts + 1
    /\ UNCHANGED <<log, nextId, clock, lockVars, byteVars, queryVars, apiVars>>

Next ==
    \/ \E in \in CreateInputs : Create(in.collection, in.data)
    \/ \E id \in Ids, u \in UpdateLists : UpdateById(id, u)
    \/ \E q \in UpdateQueries, u \in UpdateLists :
          \E order \in Orders(Kept(log, index, q.collection)) : Update(q, u, order)
    \/ \E id \in Ids, changed \in OverwriteChoices(log, index) : KillById(id, changed)
    \/ \E q \in KillQueries, changed \in OverwriteChoices(log, index) :
          \E order \in Orders(Kept(log, index, q.collection)) : Kill(q, order, changed)
    \/ Restart

Spec == Init /\ [][Next]_vars

\* ------------------------------------- the engine under concurrent callers
\* FileManager is shared by the callers' threads (Arc<FileManager>); its file
\* handle and its index are each behind a parking_lot RwLock.  A thread's step
\* is one statement of append, read / read_at, mark_deleted or scan_all: the
\* taking of a lock, a seek, a write_all, a read, the return (which drops the
\* guards the function holds).  The file is the sequence of the parts written,
\* four to a record, and offsets count parts.
PartOrder == <<"length", "checksum", "data", "tombstone">>
RecordParts == Len(PartOrder)
Part4(id, at, part, value) == [id |-> id, at |-> at, part |-> part, value |-> value]
Hole == Part4(NoId, 0, "hole", 0)

CallIds == {Uuid(1), Uuid(2)}
Calls ==
    {[op |-> o, id |-> id, offset |-> 0] : o \in {"append", "read", "mark_deleted"}, id \in CallIds}
    \cup {[op |-> "scan_all", id |-> NoId, offset |-> 0]}

\* the first statement of each operation
Entry(op) ==
    CASE op = "append" -> "append_lock"
      [] op \in {"read", "update_by_id"} -> "read_index"
      [] op = "mark_deleted" -> "mark_index"
      [] OTHER -> "scan_lock"

\* a file handle without a guard: every thread gets at it at once
CanLockFileUnguarded(t) == TRUE

\* data_file.write(): no other thread holds the file guard
CanLockFile(t) == fileGuard = 0
\* index.read(): no thread holds the write guard of the index
CanReadIndex(t) == indexGuard.writer = 0
\* index.write(): no thread holds a guard of the index
CanWriteIndex(t) == indexGuard.writer = 0 /\ indexGuard.readers = {}

\* a guard dropped at the end of the function that took it
DropFile(t) == IF fileGuard = t THEN 0 ELSE fileGuard
DropIndex(t) == [indexGuard EXCEPT !.readers = @ \ {t}]

\* write_all / read_exact at the position of the handle
RECURSIVE Pad(_, _)
Pad(f, c) == IF Len(f) >= c THEN f ELSE Pad(Append(f, Hole), c)
WriteAt(f, c, p) == IF c < Len(f) THEN [f EXCEPT ![c + 1] = p] ELSE Append(Pad(f, c), p)

\* appends begun, against the bound: a thread before its first write, a
\* thread inside the read of an update_by_id
Appending ==
    {t \in Threads :
        \/ pc[t] \in {"append_lock", "append_seek", "append_length"}
        \/ call[t].op = "update_by_id" /\ pc[t] \in {"read_index", "read_at_lock", "read_at_read"}}

\* a caller's thread enters an operation of the engine
Call(t, c) ==
    /\ pc[t] = "idle"
    /\ c.op \in {"append", "update_by_id"} =>
          Len(dataFile) + RecordParts * Cardinality(Appending) < RecordParts * MaxAppends
    /\ pc' = [pc EXCEPT ![t] = Entry(c.op)]
    /\ call' = [call EXCEPT ![t] = c]
    /\ UNCHANGED <<fileGuard, indexGuard, dataFile, cursor, positions>>
    /\ UNCHANGED <<storeVars, byteVars, queryVars, apiVars>>

\* append, line 50: let mut file = self.data_file.write()
AppendLock(t) ==
    /\ pc[t] = "append_lock"
    /\ CanLockFile(t)
    /\ fileGuard' = t
    /\ pc' = [pc EXCEPT ![t] = "append_seek"]
    /\ UNCHANGED <<call, indexGuard, dataFile, cursor, positions>>
    /\ UNCHANGED <<storeVars, byteVars, queryVars, apiVars>>

\* append, line 60: let offset = file.seek(SeekFrom::End(0))?
AppendSeek(t) ==
    /\ pc[t] = "append_seek"
    /\ cursor' = Len(dataFile)
    /\ call' = [call EXCEPT ![t].offset = Len(dataFile)]
    /\ pc' = [pc EXCEPT ![t] = "append_length"]
    /\ UNCHANGED <<fileGuard, indexGuard, dataFile, positions>>
    /\ UNCHANGED <<storeVars, byteVars, queryVars, apiVars>>

\* append, lines 63 to 66: one write_all of the four
AppendWrite(t) ==
    /\ \E k \in 1..RecordParts :
          /\ pc[t] = "append_" \o PartOrder[k]
          /\ dataFile' = WriteAt(dataFile, cursor,
                                 Part4(call[t].id, call[t].offset, PartOrder[k], 0))
          /\ pc' = [pc EXCEPT ![t] = IF k < RecordParts
                                     THEN "append_" \o PartOrder[k + 1]
                                     ELSE "append_index"]
    /\ cursor' = cursor + 1
    /\ UNCHANGED <<call, fileGuard, indexGuard, positions>>
    /\ UNCHANGED <<storeVars, byteVars, queryVars, apiVars>>

\* a variant of the insert that keeps the entry an identifier already has
AppendInsertIfAbsent(t) ==
    /\ pc[t] = "append_index"
    /\ CanWriteIndex(t)
    /\ positions' = positions @@ (call[t].id :> call[t].offset)
    /\ pc' = [pc EXCEPT ![t] = "append_return"]
    /\ UNCHANGED <<call, fileGuard, indexGuard, dataFile, cursor>>
    /\ UNCHANGED <<storeVars, byteVars, queryVars, apiVars>>

\* append, line 76: self.index.write().insert(document.id.clone(), position);
\* the write guard of the index lives for this statement
AppendInsert(t) ==
    /\ pc[t] = "append_index"
    /\ CanWriteIndex(t)
    /\ positions' = (call[t].id :> call[t].offset) @@ positions
    /\ pc' = [pc EXCEPT ![t] = "append_return"]
    /\ UNCHANGED <<call, fileGuard, indexGuard, dataFile, cursor>>
    /\ UNCHANGED <<storeVars, byteVars, queryVars, apiVars>>

\* append, lines 78 and 79: Ok(position), the file guard is dropped
AppendReturn(t) ==
    /\ pc[t] = "append_return"
    /\ fileGuard' = DropFile(t)
    /\ pc' = [pc EXCEPT ![t] = "idle"]
    /\ call' = [call EXCEPT ![t] = NoCall]
    /\ UNCHANGED <<indexGuard, dataFile, cursor, positions>>
    /\ UNCHANGED <<storeVars, byteVars, queryVars, apiVars>>

\* read, lines 83 to 86 (and mark_deleted, lines 136 to 139): the read guard
\* of the index is taken and kept to the end of the function; an identifier
\* the index does not hold returns DocumentNotFound
Lookup(t, from, to) ==
    /\ pc[t] = from
    /\ CanReadIndex(t)
    /\ IF call[t].id \in DOMAIN positions
       THEN /\ indexGuard' = [indexGuard EXCEPT !.readers = @ \cup {t}]
            /\ call' = [call EXCEPT ![t].offset = positions[call[t].id]]
            /\ pc' = [pc EXCEPT ![t] = to]
       ELSE /\ pc' = [pc EXCEPT ![t] = "idle"]
            /\ call' = [call EXCEPT ![t] = NoCall]
            /\ UNCHANGED indexGuard
    /\ UNCHANGED <<fileGuard, dataFile, cursor, positions>>
    /\ UNCHANGED <<storeVars, byteVars, queryVars, apiVars>>

ReadLookup(t) == Lookup(t, "read_index", "read_at_lock")

\* read_at, line 93 (mark_deleted, line 141; scan_all, line 176):
\* let mut file = self.data_file.write()
LockFile(t, from, to) ==
    /\ pc[t] = from
    /\ CanLockFile(t)
    /\ fileGuard' = t
    /\ pc' = [pc EXCEPT ![t] = to]
    /\ UNCHANGED <<call, indexGuard, dataFile, cursor, positions>>
    /\ UNCHANGED <<storeVars, byteVars, queryVars, apiVars>>

ReadLock(t) == LockFile(t, "read_at_lock", "read_at_read")

\* the tombstone read_at finds behind the record at the offset
TombstoneAt(f, offset) ==
    IF offset + RecordParts <= Len(f) THEN f[offset + RecordParts].value ELSE 0

\* read_at, lines 94 to 131: the seek and the reads of the record, then the
\* return of read_at and of read, which drops both guards.  In
\* NeuralVault::update_by_id (database.rs, lines 94 to 102) the document read
\* goes on to append; `read(id)?` ends the call when the record is tombstoned.
ReadRecord(t) ==
    /\ pc[t] = "read_at_read"
    /\ cursor' = call[t].offset + RecordParts
    /\ fileGuard' = DropFile(t)
    /\ indexGuard' = DropIndex(t)
    /\ IF call[t].op = "update_by_id" /\ TombstoneAt(dataFile, call[t].offset) = 0
       THEN /\ pc' = [pc EXCEPT ![t] = "append_lock"]
            /\ UNCHANGED call
       ELSE /\ pc' = [pc EXCEPT ![t] = "idle"]
            /\ call' = [call EXCEPT ![t] = NoCall]
    /\ UNCHANGED <<dataFile, positions>>
    /\ UNCHANGED <<storeVars, byteVars, queryVars, apiVars>>

MarkLookup(t) == Lookup(t, "mark_index", "mark_lock")
MarkLock(t) == LockFile(t, "mark_lock", "mark_write")

\* mark_deleted, lines 144 to 151: the seek to the tombstone, the write of
\* 0x01, the return, which drops both guards
MarkWrite(t) ==
    /\ pc[t] = "mark_write"
    /\ LET at == call[t].offset + RecordParts - 1 IN
        /\ dataFile' = IF at < Len(dataFile)
                       THEN [dataFile EXCEPT ![at + 1].value = 1]
                       ELSE WriteAt(dataFile, at, [Hole EXCEPT !.value = 1])
        /\ cursor' = at + 1
    /\ fileGuard' = DropFile(t)
    /\ indexGuard' = DropIndex(t)
    /\ pc' = [pc EXCEPT ![t] = "idle"]
    /\ call' = [call EXCEPT ![t] = NoCall]
    /\ UNCHANGED positions
    /\ UNCHANGED <<storeVars, byteVars, queryVars, apiVars>>

ScanLock(t) == LockFile(t, "scan_lock", "scan_read")

\* scan_all, lines 177 to 210: the seek to 0 and the reads up to the end of
\* the file, then the return, which drops the file guard
ScanRead(t) ==
    /\ pc[t] = "scan_read"
    /\ cursor' = Len(dataFile)
    /\ fileGuard' = DropFile(t)
    /\ pc' = [pc EXCEPT ![t] = "idle"]
    /\ call' = [call EXCEPT ![t] = NoCall]
    /\ UNCHANGED <<indexGuard, dataFile, positions>>
    /\ UNCHANGED <<storeVars, byteVars, queryVars, apiVars>>

InitLocks == StoreInit /\ LockInit /\ ByteIdle /\ QueryIdle /\ ApiIdle

NextLocks ==
    \E t \in Threads :
        \/ \E c \in Calls : Call(t, c)
        \/ AppendLock(t)
        \/ AppendSeek(t)
        \/ AppendWrite(t)
        \/ AppendInsert(t)
        \/ AppendReturn(t)
        \/ ReadLookup(t)
        \/ ReadLock(t)
        \/ ReadRecord(t)
        \/ MarkLookup(t)
        \/ MarkLock(t)
        \/ MarkWrite(t)
        \/ ScanLock(t)
        \/ ScanRead(t)

SpecLocks == InitLocks /\ [][NextLocks]_vars

\* The callers of the facade: create appends under an identifier no record
\* and no call holds yet, update_by_id reads and then appends, kill_by_id is
\* mark_deleted, find_by_id is read.
Unused ==
    {id \in CallIds :
        /\ \A i \in 1..Len(dataFile) : dataFile[i].id # id
        /\ \A t \in Threads : call[t].id # id}

FacadeCalls ==
    {[op |-> "append", id |-> id, offset |-> 0] :
        id \in {i \in Unused : \A j \in Unused : StrCmp(i, j) <= 0}}
    \cup {[op |-> o, id |-> id, offset |-> 0] :
            o \in {"update_by_id", "mark_deleted", "read"}, id \in CallIds}

NextRace ==
    \E t \in Threads :
        \/ \E c \in FacadeCalls : Call(t, c)
        \/ AppendLock(t)
        \/ AppendSeek(t)
        \/ AppendWrite(t)
        \/ AppendInsert(t)
        \/ AppendReturn(t)
        \/ ReadLookup(t)
        \/ ReadLock(t)
        \/ ReadRecord(t)
        \/ MarkLookup(t)
        \/ MarkLock(t)
        \/ MarkWrite(t)

SpecRace == InitLocks /\ [][NextRace]_vars

\* ------------------------------------------------ one record, byte by byte
\* calculate_checksum on the bytes themselves.  A u64 is its eight bytes,
\* least significant first, so that wrapping_mul is exact: the product with
\* 0x100000001b3 is h * 0x1b3 + (h << 40), cut to 64 bits.
OffsetBasis == <<37, 35, 34, 132, 228, 156, 242, 203>>    \* 0xcbf29ce484222325

\* a ^ b on u8
RECURSIVE Xor(_, _, _)
Xor(a, b, bits) ==
    IF bits = 0 THEN 0
    ELSE (((a % 2) + (b % 2)) % 2) + 2 * Xor(a \div 2, b \div 2, bits - 1)

\* h * m for a small m, from byte i on, cut to HashLen bytes
RECURSIVE MulSmall(_, _, _, _)
MulSmall(h, m, i, carry) ==
    IF i > HashLen THEN <<>>
    ELSE <<(h[i] * m + carry) % ByteRange>>
         \o MulSmall(h, m, i + 1, (h[i] * m + carry) \div ByteRange)

\* h << (8 * n), cut to HashLen bytes
ShiftBytes(h, n) == [i \in 1..HashLen |-> IF i <= n THEN 0 ELSE h[i - n]]

\* a + b, from byte i on, cut to HashLen bytes
RECURSIVE AddWrapping(_, _, _, _)
AddWrapping(a, b, i, carry) ==
    IF i > HashLen THEN <<>>
    ELSE <<(a[i] + b[i] + carry) % ByteRange>>
         \o AddWrapping(a, b, i + 1, (a[i] + b[i] + carry) \div ByteRange)

\* hash.wrapping_mul(0x100000001b3)
wrapping_mul(hash) ==
    AddWrapping(MulSmall(hash, PrimeLow, 1, 0), ShiftBytes(hash, PrimeShift), 1, 0)

\* the loop of calculate_checksum from byte i of data on
RECURSIVE HashFrom(_, _, _)
HashFrom(hash, data, i) ==
    IF i > Len(data) THEN hash
    ELSE HashFrom(wrapping_mul([hash EXCEPT ![1] = Xor(@, data[i], HashLen)]), data, i + 1)

\* a variant of calculate_checksum whose loop stops one byte early
checksum_without_last_byte(data) ==
    IF data = <<>> THEN OffsetBasis
    ELSE HashFrom(OffsetBasis, SubSeq(data, 1, Len(data) - 1), 1)

\* FileManager::calculate_checksum over the bytes of data
checksum_of_bytes(data) == HashFrom(OffsetBasis, data, 1)

\* the byte values payloads are made of, and the payloads
SampleBytes == {0, 1, 128, 255}
Bytes == 0..(ByteRange - 1)
SamplePayloads == UNION {[1..n -> SampleBytes] : n \in 1..MaxPayload}

\* the record FileManager::append writes for the payload data
RecordOfBytes(data) ==
    [len |-> Len(data), checksum |-> checksum_of_bytes(data), data |-> data, tombstone |-> 0]

\* FileManager::read_at on the bytes of one record: the checksum of the
\* payload read against the checksum read, then the tombstone; the payload is
\* handed on as read
read_at_bytes(record) ==
    IF checksum_of_bytes(record.data) # record.checksum
    THEN [status |-> "StorageError", data |-> <<>>]
    ELSE IF record.tombstone = 1 THEN [status |-> "DocumentNotFound", data |-> <<>>]
    ELSE [status |-> "Ok", data |-> record.data]

\* FileManager::append of a document whose encoding is data
AppendBytes(data) ==
    /\ stored.len = 0
    /\ stored' = RecordOfBytes(data)
    /\ UNCHANGED flipped
    /\ UNCHANGED <<storeVars, lockVars, queryVars, apiVars>>

\* one payload byte of the stored record takes another value (the length,
\* the checksum and the tombstone stay)
FlipByte(k, b) ==
    /\ stored.len > 0
    /\ flipped = {}
    /\ k \in 1..Len(stored.data)
    /\ b # stored.data[k]
    /\ stored' = [stored EXCEPT !.data[k] = b]
    /\ flipped' = {k}
    /\ UNCHANGED <<storeVars, lockVars, queryVars, apiVars>>

InitBytes == StoreInit /\ LockInit /\ ByteIdle /\ QueryIdle /\ ApiIdle

NextBytes ==
    \/ \E data \in SamplePayloads : AppendBytes(data)
    \/ \E k \in 1..MaxPayload, b \in Bytes : FlipByte(k, b)

SpecBytes == InitBytes /\ [][NextBytes]_vars

\* ------------------------------------------------ the evaluator by itself
\* filter is a pure function of the documents and the query: the documents
\* are drawn at the start, the query is built the way parse_query_json builds
\* it (conditions, the first without connector; order; limit and skip), and
\* filter is applied.
QDoc(n, data) == NVDocument("d" \o SubSeq("0123456789", n + 1, n + 1), "users", data, 0)

\* documents with field a of every kind of value
KindPool ==
    <<QDoc(1, "a" :> Null),
      QDoc(2, "a" :> Bool(TRUE)),
      QDoc(3, "a" :> Array(<<Number(1), String("x")>>)),
      QDoc(4, "a" :> Object(<<Field("k", Number(1))>>))>>

\* documents with and without field a, of equal, ordered and incomparable values
SortPool ==
    <<QDoc(5, "a" :> Number(1)),
      QDoc(6, "b" :> Number(2)),
      QDoc(7, ("a" :> Number(1)) @@ ("b" :> Number(2))),
      QDoc(8, "a" :> String("x")),
      QDoc(9, "b" :> Number(3)),
      QDoc(0, ("a" :> Number(2)) @@ ("b" :> Number(3)))>>

\* the lists handed to filter: one document of any kind; up to MaxGiven of
\* the sorting documents in every order; the first MaxPage of them
GivenLists ==
    {<<KindPool[i]>> : i \in 1..Len(KindPool)}
    \cup {<<>>}
    \cup UNION {{g \in [1..n -> Range(SortPool)] : \A i, j \in 1..n : g[i] = g[j] => i = j}
                  : n \in 1..MaxGiven}
    \cup {SubSeq(SortPool, 1, MaxPage)}

Operators ==
    {"Equals", "NotEquals", "GreaterThan", "GreaterThanOrEqual", "LessThan",
     "LessThanOrEqual", "Contains", "StartsWith", "EndsWith", "In", "NotIn"}

\* comparison values of every kind
Values ==
    {Null, Bool(TRUE), Number(1), String("x"),
     Array(<<Number(1), String("x")>>), Array(<<Array(<<Number(1), String("x")>>)>>),
     Object(<<Field("k", Number(1))>>)}

\* the conditions a query starts with, and the conditions folded
FirstConditions == {QueryCondition("a", o, v) : o \in Operators, v \in Values}
FoldedConditions ==
    {QueryCondition("a", "Equals", Number(1)),
     QueryCondition("b", "Equals", Number(2)),
     QueryCondition("b", "GreaterThan", Number(2))}

PageSkips == {0, 2, MaxPage}
PageLimits == {0, 2}

\* parse_query_json, lines 197 to 223: conditions[i] is added with
\* logical_op = None for i = 0 and Some(op) behind
AddCondition(c, op) ==
    /\ ~returned.done
    /\ Len(asked.conditions) < MaxConditions
    /\ ~asked.order_by.some /\ ~asked.skip.some /\ ~asked.limit.some
    /\ IF asked.conditions = <<>>
       THEN /\ Len(given) > 1 => c \in FoldedConditions
            /\ asked' = add_condition(asked, c.field, c.operator, c.value)
       ELSE /\ c \in FoldedConditions
            /\ Len(given) = 1
            /\ Range(asked.conditions) \subseteq FoldedConditions
            /\ asked' = add_condition_op(asked, c.field, c.operator, c.value, op)
    /\ UNCHANGED <<given, returned>>
    /\ UNCHANGED <<storeVars, lockVars, byteVars, apiVars>>

\* parse_query_json, lines 227 to 230
OrderBy(field, desc) ==
    /\ ~returned.done
    /\ ~asked.order_by.some /\ ~asked.skip.some /\ ~asked.limit.some
    /\ Len(asked.conditions) <= 1 /\ Range(asked.conditions) \subseteq FoldedConditions
    /\ asked' = [asked EXCEPT !.order_by = SomeField(field), !.order_desc = desc]
    /\ UNCHANGED <<given, returned>>
    /\ UNCHANGED <<storeVars, lockVars, byteVars, apiVars>>

\* parse_query_json, lines 233 and 234
Paginate(skip, limit) ==
    /\ ~returned.done
    /\ ~asked.skip.some /\ ~asked.limit.some
    /\ skip.some \/ limit.some
    /\ Len(asked.conditions) <= 1 /\ Range(asked.conditions) \subseteq FoldedConditions
    /\ asked' = [asked EXCEPT !.skip = skip, !.limit = limit]
    /\ UNCHANGED <<given, returned>>
    /\ UNCHANGED <<storeVars, lockVars, byteVars, apiVars>>

\* QueryProcessor::filter(documents, &query)
Filter ==
    /\ ~returned.done
    /\ returned' = [done |-> TRUE, docs |-> filter(given, asked)]
    /\ UNCHANGED <<given, asked>>
    /\ UNCHANGED <<storeVars, lockVars, byteVars, apiVars>>

InitQuery ==
    /\ StoreInit /\ LockInit /\ ByteIdle /\ ApiIdle
    /\ given \in GivenLists
    /\ asked = NVQuery("users")
    /\ returned = NotReturned

NextQuery ==
    \/ \E c \in FirstConditions \cup FoldedConditions, op \in {"And", "Or"} : AddCondition(c, op)
    \/ \E desc \in BOOLEAN : OrderBy("a", desc)
    \/ \E skip \in {NoCount} \cup {SomeCount(n) : n \in PageSkips},
          limit \in {NoCount} \cup {SomeCount(n) : n \in PageLimits} : Paginate(skip, limit)
    \/ Filter

SpecQuery == InitQuery /\ [][NextQuery]_vars

\* NVQuery::add_condition as a caller of the library can use it: logical_op
\* is None or Some(op) whatever the position of the condition, so that the
\* two vectors of the query need not fit
NoConnector == [some |-> FALSE, v |-> "And"]
SomeConnector(op) == [some |-> TRUE, v |-> op]

add_condition_with(query, field, operator, value, logical_op) ==
    IF logical_op.some
    THEN add_condition_op(query, field, operator, value, logical_op.v)
    ELSE add_condition(query, field, operator, value)

AddConditionWith(c, logical_op) ==
    /\ ~returned.done
    /\ Len(asked.conditions) < MaxConditions
    /\ asked' = add_condition_with(asked, c.field, c.operator, c.value, logical_op)
    /\ UNCHANGED <<given, returned>>
    /\ UNCHANGED <<storeVars, lockVars, byteVars, apiVars>>

\* lists of one document, and one list of several
InitLoose ==
    /\ StoreInit /\ LockInit /\ ByteIdle /\ ApiIdle
    /\ given \in {<<SortPool[i]>> : i \in 1..Len(SortPool)} \cup {SubSeq(SortPool, 1, MaxGiven)}
    /\ asked = NVQuery("users")
    /\ returned = NotReturned

NextLoose ==
    \/ \E c \in FoldedConditions,
          logical_op \in {NoConnector, SomeConnector("And"), SomeConnector("Or")} :
              AddConditionWith(c, logical_op)
    \/ Filter

SpecLoose == InitLoose /\ [][NextLoose]_vars

\* ------------------------------------------ the api over one data file
\* The functions of api.rs over the one global instance, a process that can
\* die inside an append, and a data file whose bytes can change behind the
\* engine's back.  `opened` is DB_INSTANCE being Some, `torn` the bytes of the
\* record the dying process left unfinished behind the last whole record.
\* Behind a torn tail the calls followed are the reads and the deletes.

\* NeuralVault.initialized: set to true by new(), never assigned again
initialized == TRUE

\* NeuralVault::ensure_initialized
ensure_initialized(flag) == IF ~flag THEN "NotInitialized" ELSE "Ok"

\* a variant of get_db that hands out an engine whether or not one was made
get_db_unchecked(instance) == "Ok"

\* api::get_db: DB_INSTANCE.lock().as_ref().cloned().ok_or("Database not initialized")
get_db(instance) == IF instance THEN ensure_initialized(initialized) ELSE "NotInitialized"

\* a variant of scan_all for which every read that ends early is an error
scan_file_header_strict(l, cut) ==
    IF scan_all(l).status # "Ok" THEN scan_all(l)
    ELSE IF cut = 0 THEN scan_all(l)
    ELSE [status |-> "IoError", docs |-> <<>>]

\* FileManager::scan_all over a file that ends `cut` bytes into a record:
\* read_exact of the four length bytes ends the loop on UnexpectedEof, the
\* seek over the checksum passes the end of the file, and read_exact of the
\* payload or of the tombstone returns its error through `?`
scan_file(l, cut) ==
    IF scan_all(l).status # "Ok" THEN scan_all(l)
    ELSE IF cut < HeaderLen THEN scan_all(l)
    ELSE [status |-> "IoError", docs |-> <<>>]

\* FileManager::rebuild_index over such a file: `self.scan_all()?` first
rebuild_file(l, cut, idx) ==
    IF scan_file(l, cut).status # "Ok"
    THEN [status |-> scan_file(l, cut).status, index |-> idx]
    ELSE rebuild_index(l, idx)

\* NeuralVault::new: FileManager::new, then rebuild_index()?
NeuralVault_new(l, cut) == rebuild_file(l, cut, EmptyIndex)

\* where an append can be cut: inside the length, behind it, inside the
\* checksum, inside the payload, before the tombstone
Cuts(r) ==
    {HeaderLen - 1, HeaderLen, HeaderLen + 1, HeaderLen + ChecksumLen + 1, RecSize(r) - 1}

\* the payload bytes changed behind the engine's back: the first byte of
\* a part of the encoding (the length of the identifier, the identifier, the
\* collection name, the first key, the later timestamp)
Spots(enc) ==
    LET idEnd == LenPrefix + Len(enc[1])
        colEnd == idEnd + LenPrefix + Len(enc[2])
        entEnd == colEnd + LenPrefix + EntriesLen(enc[3])
        crEnd == entEnd + LenPrefix + TimestampLen
    IN  {0, LenPrefix, idEnd + LenPrefix, crEnd + LenPrefix}
        \cup (IF enc[3] = <<>> THEN {} ELSE {colEnd + LenPrefix + LenPrefix})

Damaged(l) == {i \in 1..Len(l) : l[i].data.hits # {} \/ l[i].checksum.hits # {}}

\* the identifiers the api's callers pass: those generated and one never generated
ApiIds == {Uuid(n) : n \in 1..(MaxApiDocs + 1)}

\* api::init_database; a failed NeuralVault::new leaves DB_INSTANCE as it was
InitDatabase ==
    /\ restarts < MaxRestarts \/ (log = <<>> /\ torn = 0)
    /\ \E made \in {NeuralVault_new(log, torn)} :
        /\ opened' = (opened \/ made.status = "Ok")
        /\ index' = IF made.status = "Ok" THEN made.index ELSE index
        /\ killed' = IF made.status = "Ok" THEN {} ELSE killed
        /\ outcome' = ApiResult("init_database", NoId, made.status)
    /\ restarts' = IF log = <<>> /\ torn = 0 THEN restarts ELSE restarts + 1
    /\ UNCHANGED <<log, nextId, clock, torn, lockVars, byteVars, queryVars>>

\* the call that get_db()? ends
Refused(op, id) ==
    /\ get_db(opened) # "Ok"
    /\ outcome' = ApiResult(op, id, get_db(opened))
    /\ UNCHANGED <<storeVars, torn, lockVars, byteVars, queryVars>>

\* api::create_document
CreateDocument(collection, data) ==
    \/ Refused("create_document", NoId)
    \/ /\ get_db(opened) = "Ok"
       /\ torn = 0
       /\ nextId <= MaxApiDocs
       /\ Len(log) < MaxApiRecords
       /\ LET document == NVDocument(Uuid(nextId), collection, data, clock + 1) IN
           /\ log' = AppendLog(log, document)
           /\ index' = AppendIndex(log, index, document)
           /\ outcome' = ApiResult("create_document", document.id, "Ok")
       /\ nextId' = nextId + 1
       /\ clock' = clock + 1
       /\ UNCHANGED <<opened, killed, restarts, torn, lockVars, byteVars, queryVars>>

\* api::find_document_by_id
FindDocumentById(id) ==
    \/ Refused("find_document_by_id", id)
    \/ /\ get_db(opened) = "Ok"
       /\ outcome' = ApiResult("find_document_by_id", id, find_by_id(log, index, id).status)
       /\ UNCHANGED <<storeVars, torn, lockVars, byteVars, queryVars>>

\* api::find_documents
FindDocuments(query) ==
    \/ Refused("find_documents", NoId)
    \/ /\ get_db(opened) = "Ok"
       /\ outcome' = ApiResult("find_documents", NoId, "Ok")
       /\ UNCHANGED <<storeVars, torn, lockVars, byteVars, queryVars>>

\* api::update_document_by_id
UpdateDocumentById(id, updates) ==
    \/ Refused("update_document_by_id", id)
    \/ /\ get_db(opened) = "Ok"
       /\ \E r \in {read(log, index, id)} :
              /\ outcome' = ApiResult("update_document_by_id", id, r.status)
              /\ IF r.status # "Ok"
                 THEN UNCHANGED <<log, index, clock, killed>>
                 ELSE \E document \in {ApplyUpdates(r.doc, updates, clock)} :
                      /\ torn = 0
                      /\ Len(log) < MaxApiRecords
                      /\ log' = AppendLog(log, document)
                      /\ index' = AppendIndex(log, index, document)
                      /\ clock' = clock + Len(updates)
                      /\ killed' = killed \ {document.id}
       /\ UNCHANGED <<opened, nextId, restarts, torn, lockVars, byteVars, queryVars>>

\* api::update_documents
UpdateDocuments(query, updates, order) ==
    \/ Refused("update_documents", NoId)
    \/ /\ get_db(opened) = "Ok"
       /\ torn = 0
       /\ \E documents \in {find(log, index, order, query)} :
              /\ Len(log) + Len(documents) <= MaxApiRecords
              /\ \E done \in {UpdateEach(log, index, documents, updates, clock)} :
                    /\ log' = done.log
                    /\ index' = done.index
              /\ clock' = clock + Len(documents) * Len(updates)
              /\ killed' = killed \ DocIds(documents)
       /\ outcome' = ApiResult("update_documents", NoId, "Ok")
       /\ UNCHANGED <<opened, nextId, restarts, torn, lockVars, byteVars, queryVars>>

\* api::delete_document_by_id
DeleteDocumentById(id, changed) ==
    \/ Refused("delete_document_by_id", id)
    \/ /\ get_db(opened) = "Ok"
       /\ \E m \in {mark_deleted(log, index, id, changed)} :
           /\ outcome' = ApiResult("delete_document_by_id", id, m.status)
           /\ IF m.status # "Ok"
              THEN UNCHANGED <<log, killed>>
              ELSE /\ log' = m.log
                   /\ killed' = killed \cup {id}
       /\ UNCHANGED <<index, opened, nextId, clock, restarts, torn, lockVars, byteVars, queryVars>>

\* api::delete_documents
DeleteDocuments(query, order, changed) ==
    \/ Refused("delete_documents", NoId)
    \/ /\ get_db(opened) = "Ok"
       /\ \E documents \in {find(log, index, order, query)} :
           \E m \in {KillEach(log, index, documents, changed)} :
              /\ log' = m.log
              /\ killed' = IF m.status = "Ok" THEN killed \cup DocIds(documents) ELSE killed
              /\ outcome' = ApiResult("delete_documents", NoId, m.status)
       /\ UNCHANGED <<index, opened, nextId, clock, restarts, torn, lockVars, byteVars, queryVars>>

\* api::count_documents
CountDocuments(collection) ==
    \/ Refused("count_documents", NoId)
    \/ /\ get_db(opened) = "Ok"
       /\ outcome' = ApiResult("count_documents", NoId, "Ok")
       /\ UNCHANGED <<storeVars, torn, lockVars, byteVars, queryVars>>

\* api::get_collections
GetCollections ==
    \/ Refused("get_collections", NoId)
    \/ /\ get_db(opened) = "Ok"
       /\ outcome' = ApiResult("get_collections", NoId, collections(log).status)
       /\ UNCHANGED <<storeVars, torn, lockVars, byteVars, queryVars>>

\* api::get_stats
GetStats ==
    \/ Refused("get_stats", NoId)
    \/ /\ get_db(opened) = "Ok"
       /\ outcome' = ApiResult("get_stats", NoId, stats(log, index).status)
       /\ UNCHANGED <<storeVars, torn, lockVars, byteVars, queryVars>>

\* the process dies inside the append of a create, `cut` bytes into the
\* record; the instance and its index die with it
Crash(collection, data, cut) ==
    /\ opened
    /\ torn = 0
    /\ nextId <= MaxApiDocs
    /\ cut \in Cuts(Record(NVDocument(Uuid(nextId), collection, data, clock + 1)))
    /\ torn' = cut
    /\ opened' = FALSE
    /\ index' = EmptyIndex
    /\ killed' = {}
    /\ UNCHANGED <<log, nextId, clock, restarts, outcome, lockVars, byteVars, queryVars>>

\* byte k of the payload of record i changes behind the engine's back
Corrupt(i, k) ==
    /\ torn = 0
    /\ Cardinality(Damaged(log)) < MaxFaults
    /\ i \in 1..Len(log)
    /\ k \in Spots(log[i].data.enc)
    /\ Changes(log[i].data.enc, k)
    /\ log' = WriteOne(log, Offset(log, i) + HeaderLen + ChecksumLen + k, TRUE)
    /\ UNCHANGED <<index, opened, nextId, clock, killed, restarts, outcome, torn,
                   lockVars, byteVars, queryVars>>

\* the process starts with no instance, over an empty directory
InitApi ==
    /\ log = <<>> /\ index = EmptyIndex /\ opened = FALSE /\ nextId = 1
    /\ clock = 0 /\ killed = {} /\ restarts = 0
    /\ LockInit /\ ByteIdle /\ QueryIdle /\ ApiIdle

NextApi ==
    \/ InitDatabase
    \/ \E in \in CreateInputs : CreateDocument(in.collection, in.data)
    \/ \E id \in ApiIds : FindDocumentById(id)
    \/ \E q \in Queries : FindDocuments(q)
    \/ \E id \in ApiIds, u \in UpdateLists : UpdateDocumentById(id, u)
    \/ \E q \in UpdateQueries, u \in UpdateLists :
          \E order \in Orders(Kept(log, index, q.collection)) : UpdateDocuments(q, u, order)
    \/ \E id \in ApiIds, changed \in OverwriteChoices(log, index) : DeleteDocumentById(id, changed)
    \/ \E q \in KillQueries, changed \in OverwriteChoices(log, index) :
          \E order \in Orders(Kept(log, index, q.collection)) : DeleteDocuments(q, order, changed)
    \/ \E c \in Collections : CountDocuments(c)
    \/ GetCollections
    \/ GetStats

SpecApi == InitApi /\ [][NextApi]_vars

\* the engine of database.rs over a data file that takes damage: payload
\* bytes that change, a process that dies inside an append
NextFaults ==
    \/ InitDatabase
    \/ \E in \in CreateInputs :
          torn = 0 /\ nextId <= MaxApiDocs /\ Len(log) < MaxApiRecords /\ Create(in.collection, in.data)
    \/ \E id \in ApiIds, u \in UpdateLists :
          torn = 0 /\ Len(log) < MaxApiRecords /\ UpdateById(id, u)
    \/ \E id \in ApiIds, changed \in OverwriteChoices(log, index) : KillById(id, changed)
    \/ \E in \in CreateInputs :
          \E cut \in Cuts(Record(NVDocument(Uuid(nextId), in.collection, in.data, clock + 1))) :
              Crash(in.collection, in.data, cut)
    \/ \E i \in 1..Len(log) : \E k \in Spots(log[i].data.enc) : Corrupt(i, k)

SpecFaults == InitApi /\ [][NextFaults]_vars

\* ------------------------------------------------------- model soundness
\* every byte mark_deleted writes lies inside the file
TombstoneInFile ==
    \A id \in DOMAIN index : TombstoneOffset(index[id]) < FileLen(log)

\* a length field a stray write has changed holds 1 (the scan then reads
\* identifier text as a length) or a length that ends behind the file: either
\* way read_exact fails in scan_all
LengthDamage ==
    \A i \in 1..Len(log) :
        \/ log[i].len \in {PayloadLen(log[i]), 1}
        \/ Offset(log, i) + HeaderLen + ChecksumLen + log[i].len + TombstoneLen > FileLen(log)

\* ----------------------------------------------------- what the log holds
\* the database has been reopened over the log
reopened == restarts > 0

\* the physical records appended for identifier id, the last of a set of
\* records, the position of a record, and the document a record was written as
RecordsOf(l, id) == {i \in 1..Len(l) : l[i].data.enc[1] = id}
LatestOf(S) == CHOOSE i \in S : \A j \in S : j <= i
PositionOf(l, i) == StoragePosition(Offset(l, i), PayloadLen(l[i]))
Written(l, i) == Decode(l[i].data.enc)

\* the index holds an offset that is not the offset of the latest record of
\* its identifier (the work of a rebuild)
Misaligned ==
    \E id \in DOMAIN index \cap Ids :
        index[id].file_offset # Offset(log, LatestOf(RecordsOf(log, id)))

\* n for the n-th identifier created
Created(id) == CHOOSE n \in 1..MaxDocs : Uuid(n) = id

\* a document satisfies the (conjoined, GreaterThan) conditions of a query
Satisfies(doc, query) ==
    \A k \in 1..Len(query.conditions) :
        LET c == query.conditions[k] IN
        /\ c.field \in DOMAIN doc.data
        /\ doc.data[c.field].kind = "Number"
        /\ doc.data[c.field].n > c.value.n

\* ----------------------------------------------------------------- claims
\* C1: whatever the history of the store, right after create(d) returns Ok,
\* find_by_id(d.id) returns Ok with the identifier, the collection and the
\* field map of d.
AppendThenRead ==
    [][\A in \in CreateInputs :
          Create(in.collection, in.data) =>
              LET r == find_by_id(log', index', Uuid(nextId)) IN
              /\ r.status = "Ok"
              /\ r.doc.id = Uuid(nextId)
              /\ r.doc.collection = in.collection
              /\ r.doc.data = in.data]_vars

\* a document with a field map, created behind a rebuild that left the
\* index misaligned (its own entry holds its real offset), read back
AppendThenReadSeen ==
    /\ reopened /\ Misaligned /\ log # <<>>
    /\ LET d == Written(log, Len(log)) IN
        /\ RecordsOf(log, d.id) = {Len(log)}
        /\ d.data # EmptyData
        /\ d.id \in DOMAIN index /\ index[d.id] = PositionOf(log, Len(log))
        /\ find_by_id(log, index, d.id) = Ok(d)

\* C2: after kill_by_id(id) returned Ok, and with no later write to id in the
\* session, find_by_id(id) fails with DocumentNotFound, and id is still a key
\* of the index.
KilledReadsNotFound ==
    opened => \A id \in killed :
        /\ id \in DOMAIN index
        /\ find_by_id(log, index, id).status = "DocumentNotFound"

\* C3: rebuild_index over a reachable log gives the index whose keys are the
\* identifiers with a tombstone-0 record, each with the byte offset and the
\* payload length of the latest tombstone-0 record of that identifier.
RebuildReconstructs ==
    LET rebuilt == rebuild_index(log, index)
        live(id) == {i \in RecordsOf(log, id) : log[i].tomb = 0}
    IN  (opened /\ rebuilt.status = "Ok") =>
            /\ DOMAIN rebuilt.index = {Written(log, i).id : i \in {j \in 1..Len(log) : log[j].tomb = 0}}
            /\ \A id \in DOMAIN rebuilt.index :
                  live(id) # {} /\ rebuilt.index[id] = PositionOf(log, LatestOf(live(id)))

\* C4: a successful update_by_id(id, ops) appends one record for id and leaves
\* the earlier records as they were; once the log holds 3 or more records of
\* id, read(id) and the index rebuild_index produces both resolve id to the
\* latest of them.
UpdateAppendsLatest ==
    [][\A id \in Ids, u \in UpdateLists :
          (UpdateById(id, u) /\ read(log, index, id).status = "Ok") =>
              LET mine == RecordsOf(log', id)
                  rebuilt == rebuild_index(log', index')
              IN  /\ Len(log') = Len(log) + 1
                  /\ SubSeq(log', 1, Len(log)) = log
                  /\ Written(log', Len(log')).id = id
                  /\ Cardinality(mine) >= 3 =>
                        /\ read(log', index', id) = Ok(Written(log', LatestOf(mine)))
                        /\ rebuilt.status = "Ok"
                        /\ id \in DOMAIN rebuilt.index
                        /\ rebuilt.index[id] = PositionOf(log', LatestOf(mine))]_vars

\* C5: after update_by_id(id, ops) returned Ok, find_by_id(id) returns a
\* document with every field named in ops at its new value, every other field
\* at its old value, and the identifier, collection and creation time it had.
UpdateReplacesFields ==
    [][\A id \in Ids, u \in UpdateLists :
          (UpdateById(id, u) /\ read(log, index, id).status = "Ok") =>
              LET old == read(log, index, id).doc
                  new == find_by_id(log', index', id)
                  named == {u[k].field : k \in 1..Len(u)}
              IN  /\ new.status = "Ok"
                  /\ \A k \in 1..Len(u) :
                        /\ HasField(new.doc, u[k].field)
                        /\ Get(new.doc, u[k].field) = u[k].value
                  /\ \A f \in DOMAIN old.data \ named :
                        HasField(new.doc, f) /\ Get(new.doc, f) = Get(old, f)
                  /\ new.doc.id = id
                  /\ new.doc.collection = old.collection
                  /\ new.doc.created_at = old.created_at]_vars

\* C6: in the session that created the store, find(query) without skip and
\* limit returns, in whatever order the index is walked, one document per
\* identifier created in the collection, not deleted, whose latest version
\* satisfies the conditions: that latest version, and nothing else.
FindReturnsLive ==
    ~reopened =>
        \A q \in Queries : \A order \in Orders(DOMAIN index) :
            LET found == find(log, index, order, q)
                latest(id) == Written(log, LatestOf(RecordsOf(log, id)))
                live == {id \in Ids :
                           /\ RecordsOf(log, id) # {}
                           /\ id \notin killed
                           /\ latest(id).collection = q.collection
                           /\ Satisfies(latest(id), q)}
            IN  /\ DocIds(found) = live
                /\ Len(found) = Cardinality(live)
                /\ \A k \in 1..Len(found) : found[k] = latest(found[k].id)

\* a conditional query that finds one document and leaves out an updated
\* document that no longer matches, with another document deleted
FindReturnsLiveSeen ==
    /\ ~reopened /\ killed # {}
    /\ \E q \in Queries : \E order \in Orders(DOMAIN index) :
          /\ q.conditions # <<>>
          /\ Len(find(log, index, order, q)) = 1
          /\ \E id \in Ids \ killed :
                /\ Cardinality(RecordsOf(log, id)) >= 2
                /\ id \notin DocIds(find(log, index, order, q))
                /\ Written(log, LatestOf(RecordsOf(log, id))).collection = q.collection

\* C7: find with no order field returns the documents in the order in which
\* they were created, in whatever order the index is walked.
FindInCreationOrder ==
    opened =>
        \A q \in Queries : \A order \in Orders(DOMAIN index) :
            LET found == find(log, index, order, q) IN
            ~q.order_by.some =>
                \A i, j \in 1..Len(found) :
                    i < j => Created(found[i].id) < Created(found[j].id)

\* C8: after a kill of id returned Ok (and no write to id since), no document
\* scan_all returns has the identifier id.
KilledNotScanned ==
    (opened /\ scan_all(log).status = "Ok") =>
        \A id \in killed : id \notin DocIds(scan_all(log).docs)

\* C9: a collection with one document, which has been deleted, is not among
\* the names collections() returns nor among stats().collections.
DeletedCollectionNotListed ==
    opened =>
        \A c \in Collections :
            LET members == {id \in Ids : \E i \in RecordsOf(log, id) :
                                             Written(log, i).collection = c}
            IN  (Cardinality(members) = 1 /\ members \subseteq killed) =>
                    /\ collections(log).status = "Ok" => c \notin Range(collections(log).names)
                    /\ stats(log, index).status = "Ok" =>
                          c \notin Range(stats(log, index).collections)

HoldsFile(t) == fileGuard = t
HoldsIndex(t) == t \in indexGuard.readers \/ indexGuard.writer = t
WaitsForFile(t) ==
    pc[t] \in {"append_lock", "read_at_lock", "mark_lock", "scan_lock"} /\ ~CanLockFile(t)
WaitsForIndex(t) ==
    \/ pc[t] = "append_index" /\ ~CanWriteIndex(t)
    \/ pc[t] \in {"read_index", "mark_index"} /\ ~CanReadIndex(t)

\* the statements at which a thread looks at the file: the seek to the end
\* of append, the reads of read_at and of scan_all, the seek of mark_deleted
Observing == {"append_seek", "read_at_read", "mark_write", "scan_read"}
Writing == {"append_" \o PartOrder[k] : k \in 2..RecordParts} \cup {"append_index", "append_return"}

\* part i of the file is the part a record written in one piece has there
InPlace(f, i) ==
    LET first == i - ((i - 1) % RecordParts) IN
    /\ f[i].part = PartOrder[((i - 1) % RecordParts) + 1]
    /\ f[i].at = first - 1
    /\ f[i].id = f[first].id

\* C11: under every interleaving of append, read and mark_deleted calls from
\* different threads no state is reached in which one call holds the file
\* lock and waits for the index lock while another holds the index lock and
\* waits for the file lock (so that every call returns).
NoLockCycle ==
    ~\E t, u \in Threads :
        /\ HoldsFile(t) /\ WaitsForIndex(t)
        /\ HoldsIndex(u) /\ WaitsForFile(u)

\* C12: under every interleaving the parts of a record lie in the file in one
\* piece, a record with its header written and its payload or tombstone not
\* is in the file only while the thread appending it holds the file lock and
\* writes, no thread stands at a read, scan or seek of the file then, and
\* every index entry is the offset of a whole record of its identifier.
AppendAtomic ==
    /\ \A i \in 1..Len(dataFile) : InPlace(dataFile, i)
    /\ Len(dataFile) % RecordParts # 0 =>
          /\ \E t \in Threads : HoldsFile(t) /\ pc[t] \in Writing
          /\ \A t \in Threads : pc[t] \notin Observing
    /\ \A t \in Threads : pc[t] \in Observing => HoldsFile(t)
    /\ \A id \in DOMAIN positions :
          /\ positions[id] + RecordParts <= Len(dataFile)
          /\ dataFile[positions[id] + 1].id = id
          /\ positions[id] % RecordParts = 0

\* a second record half written by one thread while another thread waits for
\* the file lock in read_at
AppendAtomicSeen ==
    /\ Len(dataFile) > RecordParts
    /\ Len(dataFile) % RecordParts = 2
    /\ \E t, u \in Threads :
          /\ HoldsFile(t) /\ pc[t] = "append_data"
          /\ pc[u] = "read_at_lock" /\ WaitsForFile(u)

\* ------------------------------------------------ claims on the counters
\* C13: in the session that created the store, after any sequence of create,
\* update, update_by_id, kill and kill_by_id calls, count(c) is the number of
\* identifiers created in collection c and not deleted since, and is the
\* length of find with the condition-free query on c, in whatever order the
\* index is walked.
CountIsLiveScan ==
    ~reopened =>
        \A c \in Collections : \A order \in Orders(DOMAIN index) :
            LET live == {id \in Ids \ killed :
                           /\ RecordsOf(log, id) # {}
                           /\ Written(log, LatestOf(RecordsOf(log, id))).collection = c}
            IN  /\ count(log, index, order, c) = Cardinality(live)
                /\ count(log, index, order, c) = Len(find(log, index, order, NVQuery(c)))

\* a collection with a deleted document, an updated one and a count that is
\* neither the number of its records nor of its index entries
CountIsLiveScanSeen ==
    /\ ~reopened /\ killed # {}
    /\ \E c \in Collections : \E order \in Orders(DOMAIN index) :
          LET mine == {i \in 1..Len(log) : Written(log, i).collection = c} IN
          /\ count(log, index, order, c) = 1
          /\ Cardinality(mine) >= 3
          /\ Cardinality({Written(log, i).id : i \in mine}) = 2
          /\ \E id \in Ids \ killed : Cardinality(RecordsOf(log, id)) >= 2

\* the payload bytes of all records of the file
RECURSIVE PayloadBytes(_)
PayloadBytes(l) == IF l = <<>> THEN 0 ELSE PayloadLen(Head(l)) + PayloadBytes(Tail(l))

\* the identifiers whose current record (the latest appended) has tombstone 0
LiveIds == {id \in Ids : RecordsOf(log, id) # {} /\ log[LatestOf(RecordsOf(log, id))].tomb = 0}

\* C14 as stated: in every reachable state document_count counts neither
\* superseded records nor identifiers whose current record is tombstoned (it
\* is the number of identifiers whose current record is live), and
\* file_size_bytes is the total length of the log.
DocumentCountIsLive ==
    opened =>
        /\ statistics(log, index).document_count = Cardinality(LiveIds)
        /\ statistics(log, index).file_size_bytes
             = PayloadBytes(log) + Len(log) * (HeaderLen + ChecksumLen + TombstoneLen)

\* C14 amended: document_count is the number of keys of the position index.
\* In the session that created the store it is the number of identifiers
\* created, each counted once however many records were appended for it; the
\* identifiers killed in a session are still keys of the index and still
\* counted; file_size_bytes is the total length of the log, superseded and
\* tombstoned records included.
DocumentCountIsIndexSize ==
    opened =>
        /\ killed \subseteq DOMAIN index
        /\ ~reopened => statistics(log, index).document_count = nextId - 1
        /\ statistics(log, index).file_size_bytes
             = PayloadBytes(log) + Len(log) * (HeaderLen + ChecksumLen + TombstoneLen)

\* an updated document and a killed one: fewer index entries than records,
\* more than live identifiers
DocumentCountIsIndexSizeSeen ==
    /\ opened /\ killed # {}
    /\ statistics(log, index).document_count < Len(log)
    /\ statistics(log, index).document_count > Cardinality(LiveIds)
    /\ Cardinality(LiveIds) > 0

\* ------------------------------------------------- claims on the checksum
\* C15: after one payload byte of a stored record has been changed to another
\* value, read_at of the record fails with the storage error and returns no
\* document: the FNV-1a hash of the changed payload differs from the hash
\* stored (and the record read back unchanged is returned as written).
ChecksumSensitive ==
    /\ flipped # {} =>
          /\ checksum_of_bytes(stored.data) # stored.checksum
          /\ read_at_bytes(stored).status = "StorageError"
    /\ (flipped = {} /\ stored.len > 0) => read_at_bytes(stored) = [status |-> "Ok", data |-> stored.data]

\* the last byte of a two-byte payload changed from 0x00 to 0xff
ChecksumSensitiveSeen ==
    /\ flipped = {2}
    /\ stored.data = <<1, 255>>
    /\ stored.checksum = checksum_of_bytes(<<1, 0>>)
    /\ read_at_bytes(stored).status = "StorageError"

\* ------------------------------------------------ claims on the evaluator
\* what filter was asked
Unordered == ~asked.order_by.some
Unpaged == ~asked.skip.some /\ ~asked.limit.some
Position(documents, doc) == CHOOSE i \in 1..Len(documents) : documents[i] = doc

\* (((c0 o0 c1) o1 c2) ... o(n-2) c(n-1)) for the first n conditions
RECURSIVE LeftFold(_, _, _)
LeftFold(doc, q, n) ==
    IF n = 1 THEN evaluate_condition(doc, q.conditions[1])
    ELSE IF q.logical_operators[n - 1] = "And"
         THEN LeftFold(doc, q, n - 1) /\ evaluate_condition(doc, q.conditions[n])
         ELSE LeftFold(doc, q, n - 1) \/ evaluate_condition(doc, q.conditions[n])

\* C16: filter (no order, no pagination) returns the given documents for
\* which the conditions folded from the left, without precedence, are true,
\* in the order given: all of them when the query has no conditions, and for
\* c0 OR c1 AND c2 those for which (c0 OR c1) AND c2 holds.
FoldsLeftToRight ==
    (returned.done /\ Unordered /\ Unpaged) =>
        /\ returned.docs =
              SelectSeq(given, LAMBDA d : \/ asked.conditions = <<>>
                                          \/ LeftFold(d, asked, Len(asked.conditions)))
        /\ asked.conditions = <<>> => returned.docs = given
        /\ asked.logical_operators = <<"Or", "And">> =>
              \A i \in 1..Len(given) :
                  (given[i] \in Range(returned.docs)) <=>
                      /\ \/ evaluate_condition(given[i], asked.conditions[1])
                         \/ evaluate_condition(given[i], asked.conditions[2])
                      /\ evaluate_condition(given[i], asked.conditions[3])

\* c0 OR c1 AND c2 on a document with c0 true and c2 false: not returned
\* (with And before Or it would be)
FoldsLeftToRightSeen ==
    /\ returned.done /\ Unordered /\ Unpaged
    /\ asked.logical_operators = <<"Or", "And">>
    /\ Len(given) = 1
    /\ evaluate_condition(given[1], asked.conditions[1])
    /\ ~evaluate_condition(given[1], asked.conditions[2])
    /\ ~evaluate_condition(given[1], asked.conditions[3])
    /\ returned.docs = <<>>

\* two values are structurally identical
Identical(left, right) == left.kind = right.kind /\ left = right

\* C17: for a document that has the field, Equals returns it whenever its
\* value and the comparison value are structurally identical, of whatever
\* kind, and not when they are of different kinds; NotEquals is the negation;
\* In returns it whenever the comparison value is a sequence with an item
\* identical to its value, NotIn the negation.
EqualsIsStructural ==
    (returned.done /\ Unordered /\ Unpaged /\ Len(given) = 1 /\ Len(asked.conditions) = 1
       /\ HasField(given[1], asked.conditions[1].field)) =>
        LET c == asked.conditions[1]
            left == Get(given[1], c.field)
            found == returned.docs = given
            member == /\ c.value.kind = "Array"
                      /\ \E i \in 1..Len(c.value.items) : Identical(left, c.value.items[i])
        IN  /\ c.operator = "Equals" =>
                  /\ Identical(left, c.value) => found
                  /\ left.kind # c.value.kind => ~found
            /\ c.operator = "NotEquals" =>
                  /\ Identical(left, c.value) => ~found
                  /\ left.kind # c.value.kind => found
            /\ c.operator = "In" => (member => found)
            /\ c.operator = "NotIn" => (member => ~found)

\* C18: filter with one condition returns no document that lacks the field
\* of the condition, whatever the operator (NotEquals and NotIn included) and
\* the comparison value.
AbsentFieldIsFalse ==
    (returned.done /\ Len(asked.conditions) = 1) =>
        \A k \in 1..Len(returned.docs) :
            HasField(returned.docs[k], asked.conditions[1].field)

\* NotIn over a sequence, asked of a document without the field: not returned
AbsentFieldIsFalseSeen ==
    /\ returned.done /\ Len(asked.conditions) = 1 /\ Len(given) = 1
    /\ asked.conditions[1].operator = "NotIn"
    /\ asked.conditions[1].value.kind = "Array"
    /\ ~HasField(given[1], asked.conditions[1].field)
    /\ returned.docs = <<>>

\* two documents that the ordering by a field takes for equal: both without
\* the field, or with values of different kinds or of a kind without order,
\* or with the same value
ComparesEqual(x, y, f) ==
    \/ ~HasField(x, f) /\ ~HasField(y, f)
    \/ /\ HasField(x, f) /\ HasField(y, f)
       /\ \/ Get(x, f).kind # Get(y, f).kind
          \/ Get(x, f).kind \notin {"Number", "String", "Bool"}
          \/ Get(x, f) = Get(y, f)

\* C19: filter with an order field (no pagination) returns the matching
\* documents rearranged so that, ascending, every document with the field
\* stands before every document without it, and descending behind it, and so
\* that two documents that compare equal stand in the order given.
MissingFieldOrder ==
    (returned.done /\ asked.order_by.some /\ Unpaged) =>
        LET out == returned.docs
            f == asked.order_by.v
        IN  /\ Range(out) = {d \in Range(given) : matches_query(d, asked)}
            /\ Len(out) = Cardinality(Range(out))
            /\ \A i, j \in 1..Len(out) :
                  i < j =>
                      /\ HasField(out[i], f) # HasField(out[j], f) =>
                            IF asked.order_desc THEN HasField(out[j], f) ELSE HasField(out[i], f)
                      /\ ComparesEqual(out[i], out[j], f) =>
                            Position(given, out[i]) < Position(given, out[j])

\* {a: 1}, {b: 2} by a, descending: {b: 2}, {a: 1}
MissingFieldOrderSeen ==
    /\ returned.done /\ asked.order_by = SomeField("a") /\ asked.order_desc /\ Unpaged
    /\ asked.conditions = <<>>
    /\ Len(given) = 2
    /\ given[1].data = ("a" :> Number(1))
    /\ given[2].data = ("b" :> Number(2))
    /\ returned.docs = <<given[2], given[1]>>

\* C20: filter returns elements skip + 1 .. skip + limit (counted from 1) of
\* the matching documents in their order (sorted, if an order field is
\* named): nothing when skip is at or beyond their number, all of them when
\* neither skip nor limit is given.
SkipThenLimit ==
    returned.done =>
        LET matched == SelectSeq(given, LAMBDA d : matches_query(d, asked))
            base == IF asked.order_by.some
                    THEN sort_documents(matched, asked.order_by.v, asked.order_desc)
                    ELSE matched
            skip == IF asked.skip.some THEN asked.skip.v ELSE 0
            room == IF Len(base) > skip THEN Len(base) - skip ELSE 0
            n == IF asked.limit.some /\ asked.limit.v < room THEN asked.limit.v ELSE room
        IN  /\ Len(returned.docs) = n
            /\ \A k \in 1..n : returned.docs[k] = base[skip + k]
            /\ Unpaged => Len(returned.docs) = Len(matched)
            /\ skip >= Len(matched) => returned.docs = <<>>

\* five matching documents, skip 2, limit 2: the third and the fourth
SkipThenLimitSeen ==
    /\ returned.done /\ Unordered /\ asked.conditions = <<>>
    /\ Len(given) >= 5
    /\ asked.skip = SomeCount(2) /\ asked.limit = SomeCount(2)
    /\ returned.docs = <<given[3], given[4]>>

\* ------------------------------------------------------ claims on the api
\* C21: every operation attempted before the engine is initialized fails with
\* the not-initialized error and leaves the log and the index as they were;
\* once an initialization has succeeded no operation fails with it.
NotInitializedRefused ==
    [][/\ (~opened /\ outcome'.op # "init_database")
            => (outcome'.status = "NotInitialized" /\ log' = log /\ index' = index)
       /\ opened => outcome'.status # "NotInitialized"]_vars

NotInitializedRefusedSeen ==
    /\ ~opened
    /\ outcome.op = "update_document_by_id"
    /\ outcome.status = "NotInitialized"

\* ------------------------------------------- claims on a damaged data file
\* the records whose payload no longer has the checksum stored with it
Corrupted(l) == {i \in 1..Len(l) : l[i].data.hits # {}}

\* C22: collections() lists no name that only corrupted records carry: every
\* name listed is the collection of a live record whose payload is as written.
CorruptedNotListed ==
    (opened /\ collections(log).status = "Ok") =>
        \A name \in Range(collections(log).names) :
            \E i \in 1..Len(log) \ Corrupted(log) :
                log[i].tomb = 0 /\ Written(log, i).collection = name

\* ------------------------------------------------ claims on the reopening
\* C23: a reopening that succeeds keeps what find_by_id gives for every
\* identifier: the same latest document, or the same not-found.
ReopenPreservesView ==
    [][(restarts' = restarts + 1 /\ opened /\ opened')
          => \A id \in Ids : find_by_id(log', index', id) = find_by_id(log, index, id)]_vars

\* C24: the log only grows, and of the bytes written only tombstones change,
\* from 0 to 1, in records of the identifiers deleted by the step.
LogAppendOnly ==
    [][/\ Len(log') >= Len(log)
       /\ \A i \in 1..Len(log) :
            /\ log'[i].len = log[i].len
            /\ log'[i].checksum = log[i].checksum
            /\ log'[i].data = log[i].data
            /\ log[i].tomb = 1 => log'[i].tomb = 1
            /\ log'[i].tomb # log[i].tomb => Written(log, i).id \in killed']_vars

\* ------------------------------------------- claims on concurrent writers
\* the statements of append, from the taking of the file lock to the return
InAppend == {"append_seek", "append_index", "append_return"}
               \cup {"append_" \o PartOrder[k] : k \in 1..RecordParts}

\* the offsets of the whole records of the identifier in the file
WholeRecords(f, id) ==
    {o \in 0..(Len(f) - RecordParts) :
        o % RecordParts = 0 /\ f[o + 1].id = id /\ f[o + 1].part = PartOrder[1]}

\* C25: whenever no append holds the file lock, the index holds for every
\* identifier the offset of the physically last record of that identifier in
\* the file (and no entry for an identifier without a record), whichever
\* threads wrote the records and in whichever order they took the lock.
IndexNamesLatest ==
    (~\E t \in Threads : HoldsFile(t) /\ pc[t] \in InAppend) =>
        \A id \in CallIds :
            IF WholeRecords(dataFile, id) = {} THEN id \notin DOMAIN positions
            ELSE /\ id \in DOMAIN positions
                 /\ \A o \in WholeRecords(dataFile, id) : o <= positions[id]
                 /\ positions[id] \in WholeRecords(dataFile, id)

\* two records of one identifier in the file, the entry at the second, while
\* the other thread is inside a call
IndexNamesLatestSeen ==
    /\ ~\E t \in Threads : HoldsFile(t) /\ pc[t] \in InAppend
    /\ \E id \in CallIds :
          /\ WholeRecords(dataFile, id) = {0, RecordParts}
          /\ id \in DOMAIN positions /\ positions[id] = RecordParts
    /\ \E t \in Threads : pc[t] # "idle"

\* C26: once every call has returned, an identifier one of whose records was
\* tombstoned by a kill_by_id that returned Ok is not found: the record its
\* index entry names carries the tombstone, whatever update_by_id ran beside
\* the kill.
DeleteNotUndone ==
    (\A t \in Threads : pc[t] = "idle") =>
        \A id \in DOMAIN positions :
            (\E o \in WholeRecords(dataFile, id) : TombstoneAt(dataFile, o) = 1)
                => TombstoneAt(dataFile, positions[id]) = 1

NotFoundNoEffect ==
    [][(/\ opened
        /\ outcome'.op \in {"find_document_by_id", "update_document_by_id",
                             "delete_document_by_id"})
        => /\ RecordsOf(log, outcome'.id) = {} => outcome'.status = "DocumentNotFound"
           /\ (/\ outcome'.op = "update_document_by_id"
               /\ RecordsOf(log, outcome'.id) # {}
               /\ log[LatestOf(RecordsOf(log, outcome'.id))].tomb = 1)
                 => outcome'.status = "DocumentNotFound"
           /\ outcome'.status = "DocumentNotFound" => (log' = log /\ index' = index)]_vars

\* the records of a file no stray byte has touched, and the k-th of a set of
\* them in file order
Intact(l) == Damaged(l) = {} /\ \A i \in 1..Len(l) : l[i].len = PayloadLen(l[i])
Nth(S, k) == CHOOSE i \in S : Cardinality({j \in S : j < i}) = k - 1

\* C29: over a data file that ends with one to three bytes of a record
\* header behind intact records, scan_all reports no error and returns the
\* documents of the complete records with tombstone 0, in file order.
PartialHeaderIsEnd ==
    (torn > 0 /\ torn < HeaderLen /\ Intact(log)) =>
        LET live == {i \in 1..Len(log) : log[i].tomb = 0}
            scanned == scan_file(log, torn)
        IN  /\ scanned.status = "Ok"
            /\ Len(scanned.docs) = Cardinality(live)
            /\ \A k \in 1..Len(scanned.docs) : scanned.docs[k] = Written(log, Nth(live, k))

\* a store reopened over three bytes of a header behind a tombstoned record
\* and a record with tombstone 0
PartialHeaderIsEndSeen ==
    /\ torn = HeaderLen - 1 /\ Intact(log)
    /\ opened /\ outcome = ApiResult("init_database", NoId, "Ok")
    /\ \E i, j \in 1..Len(log) : log[i].tomb = 0 /\ log[j].tomb = 1
    /\ Len(scan_file(log, torn).docs) = 1
    /\ DOMAIN index = DocIds(scan_file(log, torn).docs)

\* C30: the opening of a store whose data file ends, behind intact records,
\* in a record cut behind its four length bytes succeeds, and the index it
\* builds has an entry for every identifier with a complete record with
\* tombstone 0.
InterruptedAppendOpens ==
    [][(restarts' = restarts + 1 /\ torn >= HeaderLen /\ Intact(log))
        => /\ outcome'.status = "Ok"
           /\ opened'
           /\ \A i \in 1..Len(log) : log[i].tomb = 0 => Written(log, i).id \in DOMAIN index']_vars

\* ------------------------------------- claims on queries that do not fit
\* the conditions matches_query reaches: one more than the connectors, and
\* no more than there are
Reached(q) ==
    IF Len(q.conditions) <= Len(q.logical_operators) + 1
    THEN Len(q.conditions) ELSE Len(q.logical_operators) + 1

\* the query without the conditions and the connectors that are not reached
Fitted(q) ==
    [q EXCEPT !.conditions = SubSeq(@, 1, Reached(q)),
              !.logical_operators = SubSeq(@, 1, Reached(q) - 1)]

\* C31: whatever the numbers of conditions and of connectors of a query,
\* filter returns a result: the documents that satisfy the left-to-right
\* fold of the first len(connectors) + 1 conditions (all documents when the
\* query has no condition), which is the result of the query without its
\* surplus conditions and connectors.
SurplusIgnored ==
    returned.done =>
        /\ returned.docs =
              SelectSeq(given, LAMBDA d : \/ asked.conditions = <<>>
                                          \/ LeftFold(d, asked, Reached(asked)))
        /\ returned.docs = filter(given, Fitted(asked))

\* three conditions behind one connector: a document is returned that the
\* third condition rejects
SurplusIgnoredSeen ==
    /\ returned.done
    /\ Len(asked.conditions) = 3 /\ Len(asked.logical_operators) = 1
    /\ \E i \in 1..Len(returned.docs) :
          ~evaluate_condition(returned.docs[i], asked.conditions[3])
====
